---- MODULE Spec2Model ----
(***************************************************************************)
(* The tool-augmented conversation loop of src/client/bedrock.py:          *)
(* MCPClient.process_query, _process_response, _handle_tool_call and       *)
(* _make_bedrock_request, with the Gateway (bedrock.converse) and the Tool *)
(* Host (session.list_tools / session.call_tool) as nondeterministic       *)
(* collaborators.                                                          *)
(*                                                                         *)
(* Python dicts are records whose DOMAIN is the set of keys present, so a  *)
(* missing key is a key outside the DOMAIN.  The Japanese message literals *)
(* of the source are written in English, one literal per source literal,   *)
(* with "ERROR: " for the source's error prefix.                           *)
(***************************************************************************)
EXTENDS Integers, Sequences, FiniteSets, TLC

VARIABLES
    session,        \* self.session: "None", "uninitialized" or "initialized"
    pc,             \* where the query's coroutine stands
    query,          \* the argument of process_query, a sequence of characters
    messages,       \* the message history of the query (local of process_query)
    bedrock_tools,  \* the translated tool schemas
    response,       \* the local `response` of _process_response
    content,        \* the list the running `for item in ...` iterates over
    idx,            \* the position of that iteration
    final_text,     \* the fragments emitted so far
    turn_count,     \* the local turn counter
    ret,            \* what process_query returned
    gwCalls,        \* observer: Gateway calls made in this query
    gwFailures,     \* observer: Gateway calls of this query that raised
    gwErrors,       \* observer: the exceptions _make_bedrock_request raised, per failure
    toolLog,        \* observer: toolUseIds handed to call_tool, in order
    lastTool,       \* observer: how the latest call_tool ended
    listTools,      \* observer: the query's list_tools call: "no call", "pending",
                    \* "returned" or "raised"
    available_tools, \* the descriptors list_tools reported to this query
    chat,           \* chat_loop: "off" (not running), "input" (at the prompt),
                    \* "query" (awaiting process_query) or "ended"
    printed,        \* what the current pass of chat_loop has printed
    hadFailure,     \* observer: an earlier query of this chat_loop failed
    mainPc,         \* main: "off" (not running) or where its server loop stands
    server,         \* main: the position of `for key in server_config.keys()`
    connectLog,     \* observer: servers connect_to_server was awaited for
    chatLog,        \* observer: servers chat_loop was awaited for
    reportLog,      \* observer: servers whose failure main printed
    cleanupLog,     \* observer: servers whose client cleanup was awaited
    cliPc,          \* client.py main: "off" or where it stands
    mcp_clients,    \* client.py: how many clients load_mcp_clients returned
    entered,        \* client.py: how many of them `stack.enter_context` was tried on
    clients,        \* client.py: how many contexts were entered
    agent,          \* client.py: "none" or "created"
    reads,          \* client.py: how many times input() was called
    asked,          \* observer: the messages the agent was invoked with
    cliOut,         \* client.py: what was printed last, or the exception that left main
    toolPc,         \* minecraft.py setBlocks: "off" or where the tool stands
    params,         \* minecraft.py setBlocks: the parameters it was called with
    toolResult,     \* minecraft.py setBlocks: the string it returned
    spawned,        \* observer: how many times subprocess.run started the script
    scriptPc,       \* tools/setBlocks.py main: "off" or where it stands
    argv,           \* tools/setBlocks.py: the values on its command line
    exit_code,      \* tools/setBlocks.py: what main returned, "none" before
    stdout,         \* tools/setBlocks.py: the line printed to standard output
    stderr,         \* tools/setBlocks.py: the line printed to standard error
    setBlocksCalls, \* observer: how many times mc.setBlocks was called
    max_retries,    \* connect_to_minecraft: its parameter
    retry_delay,    \* connect_to_minecraft: its parameter
    attempt,        \* connect_to_minecraft: the position of `for attempt in range(...)`
    connPc,         \* connect_to_minecraft: "off" or where it stands
    connLog,        \* observer: how each call of Minecraft.create() ended
    slept           \* observer: the seconds spent in time.sleep

vars == <<session, pc, query, messages, bedrock_tools, response, content, idx,
          final_text, turn_count, ret, gwCalls, gwFailures, gwErrors, toolLog, lastTool,
          listTools, available_tools, chat, printed, hadFailure,
          mainPc, server, connectLog, chatLog, reportLog, cleanupLog,
          cliPc, mcp_clients, entered, clients, agent, reads, asked, cliOut,
          toolPc, params, toolResult, spawned, scriptPc, argv, exit_code, stdout,
          stderr, setBlocksCalls, max_retries, retry_delay, attempt, connPc, connLog,
          slept>>

\* the locals of process_query and the session
queryVars == <<session, pc, query, messages, bedrock_tools, response, content, idx,
               final_text, turn_count, ret, gwCalls, gwFailures, gwErrors, toolLog,
               lastTool, listTools, available_tools>>

\* the state of main
mainVars == <<mainPc, server, connectLog, chatLog, reportLog, cleanupLog>>

\* the state of main of client/client.py
cliVars == <<cliPc, mcp_clients, entered, clients, agent, reads, asked, cliOut>>

\* the state of connect_to_minecraft of the tool scripts
connVars == <<max_retries, retry_delay, attempt, connPc, connLog, slept>>

\* the state of main of server/tools/setBlocks.py
scriptVars == <<scriptPc, argv, exit_code, stdout, stderr, setBlocksCalls>>

\* the state of the setBlocks tool of server/minecraft.py
toolVars == <<toolPc, params, toolResult, spawned>>

\* the state of the server side
serverVars == <<toolVars, scriptVars, connVars>>

\* the state outside process_query and chat_loop
otherVars == <<mainVars, cliVars, serverVars>>

\* the state of chat_loop
chatVars == <<chat, printed, hadFailure>>

-----------------------------------------------------------------------------
(* Bounds and constants *)

\* MAX_TURNS is 100 in the source; the model runs the same loop with a
\* smaller limit.
MaxTurnsBound == 2

MAX_TURNS == MaxTurnsBound

EmptyDict == [k \in {} |-> k]

NoReturn == "<running>"

-----------------------------------------------------------------------------
(* Strings *)

\* str.strip(): drop leading and trailing whitespace.
RECURSIVE LStrip(_)
LStrip(s) == IF s # <<>> /\ Head(s) = " " THEN LStrip(Tail(s)) ELSE s

RECURSIVE RStrip(_)
RStrip(s) == IF s # <<>> /\ s[Len(s)] = " " THEN RStrip(SubSeq(s, 1, Len(s) - 1)) ELSE s

Strip(s) == RStrip(LStrip(s))

\* the test without the strip(): only the empty string counts as blank
IsBlankQueryNoStrip(q) == q = <<>>

\* variant: the texts "quit" and "exit" are refused like a blank query
IsBlankQueryOrQuit(q) ==
    \/ q = <<>>
    \/ Strip(q) = <<>>
    \/ Strip(q) \in {<<"q", "u", "i", "t">>, <<"e", "x", "i", "t">>}

\* `not query or not query.strip()`
IsBlankQuery(q) == q = <<>> \/ Strip(q) = <<>>

\* the characters of a query as one string
RECURSIVE Text(_)
Text(s) == IF s = <<>> THEN "" ELSE Head(s) \o Text(Tail(s))

\* "\n\n".join(final_text)
RECURSIVE Join(_)
Join(frags) ==
    IF frags = <<>> THEN ""
    ELSE IF Len(frags) = 1 THEN frags[1]
    ELSE frags[1] \o "\n\n" \o Join(Tail(frags))

Last(s) == s[Len(s)]

-----------------------------------------------------------------------------
(* Message *)

MessageUser(text) == [role |-> "user", content |-> <<[text |-> text]>>]

MessageAssistant(text) == [role |-> "assistant", content |-> <<[text |-> text]>>]

\* content[0].text is an attribute access: it succeeds on an object that
\* carries a text attribute and raises AttributeError on a dict or on an
\* object without that attribute.
HasTextAttr(item) == item.py = "object" /\ "text" \in DOMAIN item

MessageToolResultRaises(cont) == ~HasTextAttr(cont[1])

\* variant: the tool result is built as an assistant message
MessageToolResultAsAssistant(tool_use_id, cont) ==
    [role |-> "assistant",
     content |-> <<[toolResult |->
                      [toolUseId |-> tool_use_id,
                       content |-> <<[json |-> [text |-> cont[1].text]]>>]]>>]

MessageToolResult(tool_use_id, cont) ==
    [role |-> "user",
     content |-> <<[toolResult |->
                      [toolUseId |-> tool_use_id,
                       content |-> <<[json |-> [text |-> cont[1].text]]>>]]>>]

MessageToolRequest(tool_use_id, name, input_data) ==
    [role |-> "assistant",
     content |-> <<[toolUse |->
                      [toolUseId |-> tool_use_id, name |-> name, input |-> input_data]]>>]

ToBedrockFormatRaises(tools_list) ==
    \E i \in 1..Len(tools_list) :
        ~({"properties", "required"} \subseteq DOMAIN tools_list[i].input_schema)

\* the key whose lookup raises KeyError: the first descriptor that lacks
\* one, 'properties' being read before 'required'
MissingSchemaKey(tools_list) ==
    LET i == CHOOSE k \in 1..Len(tools_list) :
                 /\ ~({"properties", "required"} \subseteq DOMAIN tools_list[k].input_schema)
                 /\ \A j \in 1..(k - 1) :
                       {"properties", "required"} \subseteq DOMAIN tools_list[j].input_schema
    IN  IF "properties" \notin DOMAIN tools_list[i].input_schema
        THEN "'properties'"
        ELSE "'required'"

\* variant: the translated list comes out in reverse order
ToBedrockFormatReversed(tools_list) ==
    [i \in 1..Len(tools_list) |->
        [toolSpec |->
            [name |-> tools_list[Len(tools_list) + 1 - i].name,
             description |-> tools_list[Len(tools_list) + 1 - i].description,
             inputSchema |->
                [json |-> [type |-> "object",
                           properties |->
                               tools_list[Len(tools_list) + 1 - i].input_schema.properties,
                           required |->
                               tools_list[Len(tools_list) + 1 - i].input_schema.required]]]]]

ToBedrockFormat(tools_list) ==
    [i \in 1..Len(tools_list) |->
        [toolSpec |->
            [name |-> tools_list[i].name,
             description |-> tools_list[i].description,
             inputSchema |->
                [json |-> [type |-> "object",
                           properties |-> tools_list[i].input_schema.properties,
                           required |-> tools_list[i].input_schema.required]]]]]

IsToolUseMsg(m) == "toolUse" \in DOMAIN m.content[1]

IsToolResultMsg(m) == "toolResult" \in DOMAIN m.content[1]

-----------------------------------------------------------------------------
(* What the collaborators can answer *)

\* The queries a caller passes: empty, whitespace only, and non-blank ones
\* (with leading whitespace, and the texts "quit" and "exit").
Queries ==
    { <<>>, <<" ", " ">>, <<" ", "h", "i">>,
      <<"q", "u", "i", "t">>, <<"e", "x", "i", "t">> }

CaptureTool ==
    [name |-> "capture", description |-> "take a screenshot",
     inputSchema |-> [type |-> "object", properties |-> "{}", required |-> "[]"]]

SetBlockTool ==
    [name |-> "setBlock", description |-> "place a block",
     inputSchema |-> [type |-> "object", properties |-> "{x,y,z,blockType}",
                      required |-> "[x,y,z,blockType]"]]

\* a descriptor whose inputSchema has no 'required' entry
NoRequiredTool ==
    [name |-> "getPlayerPos", description |-> "player position",
     inputSchema |-> [type |-> "object", properties |-> "{}"]]

\* response.tools of session.list_tools()
ToolLists ==
    { <<>>, <<CaptureTool, SetBlockTool>>, <<CaptureTool, NoRequiredTool>> }

\* what session.list_tools() can raise
ListToolsErrors ==
    { [type |-> "TimeoutError", msg |-> ""],
      [type |-> "McpError", msg |-> "Connection closed"] }

TextBlock(t) == [text |-> t]

\* The Gateway issues a fresh toolUseId for every toolUse block: the k-th
\* block of the answer to the n-th Gateway call of the query.
ToolUseBlock(n, k, name) ==
    [toolUse |-> [toolUseId |-> <<n, k>>, name |-> name, input |-> "{}"]]

\* a toolUse block that lacks the 'name' key
NamelessToolUseBlock(n, k) ==
    [toolUse |-> [toolUseId |-> <<n, k>>, input |-> "{}"]]

GatewayResponse(stop, cont) ==
    [stopReason |-> stop,
     output |-> [message |-> [role |-> "assistant", content |-> cont]]]

\* the answers bedrock.converse can give to the n-th call of a query
ToolUseResponses(n) ==
    { GatewayResponse("tool_use", <<ToolUseBlock(n, 1, "capture")>>),
      GatewayResponse("tool_use", <<TextBlock("plan"), ToolUseBlock(n, 2, "setBlock")>>),
      GatewayResponse("tool_use",
                      <<ToolUseBlock(n, 1, "capture"), ToolUseBlock(n, 2, "setBlock")>>),
      GatewayResponse("tool_use", <<TextBlock("plan")>>),
      GatewayResponse("tool_use", <<>>),
      GatewayResponse("tool_use", <<NamelessToolUseBlock(n, 1)>>),
      [stopReason |-> "tool_use"],
      [stopReason |-> "tool_use", output |-> EmptyDict] }

TerminalResponses(n) ==
    { GatewayResponse("end_turn", <<TextBlock("Hello")>>),
      GatewayResponse("end_turn", <<ToolUseBlock(n, 1, "capture"), TextBlock("Hello")>>),
      GatewayResponse("end_turn", <<>>),
      [stopReason |-> "end_turn"],
      GatewayResponse("max_tokens", <<TextBlock("Hel")>>),
      GatewayResponse("stop_sequence", <<TextBlock("Hello")>>),
      GatewayResponse("content_filtered", <<>>),
      GatewayResponse("guardrail_intervened", <<>>) }

MalformedResponses ==
    { EmptyDict,
      [output |-> [message |-> [role |-> "assistant", content |-> <<TextBlock("Hello")>>]]] }

GatewayResponses(n) ==
    ToolUseResponses(n) \cup TerminalResponses(n) \cup MalformedResponses

\* the ways bedrock.converse can fail
GatewayFailureModes ==
    { "ModelNotReadyException", "ValidationException", "ThrottlingException",
      "AccessDeniedException", "OtherException" }

\* content items a tool result can carry: objects with attributes
TextContent(t) == [py |-> "object", type |-> "text", text |-> t]

ImageContent == [py |-> "object", type |-> "image", data |-> "png", mimeType |-> "image/png"]

\* what `await session.call_tool(...)` can produce: a result object, None,
\* or an exception
CallToolOutcomes ==
    { [raised |-> FALSE, isNone |-> FALSE, content |-> <<TextContent("done")>>],
      [raised |-> FALSE, isNone |-> FALSE, content |-> <<ImageContent>>],
      [raised |-> FALSE, isNone |-> FALSE, content |-> <<>>],
      [raised |-> FALSE, isNone |-> TRUE],
      [raised |-> TRUE, type |-> "TimeoutError", msg |-> ""],
      [raised |-> TRUE, type |-> "KeyError", msg |-> "'x'"],
      [raised |-> TRUE, type |-> "McpError", msg |-> "tool failed"] }

-----------------------------------------------------------------------------
(* MCPClient *)

EmptyQueryMsg == "The query is empty. Enter a question or an instruction."

NotConnectedMsg == "ERROR: no connection to the server has been established."

NoToolsMsg ==
    "WARNING: the server has no tools available. Check the server configuration."

EmptyResponseMsg == "ERROR: the response of the AI model is empty."

BadResponseMsg == "ERROR: the response of the AI model has an invalid format."

MaxTurnsMarker == "\n[Max turns reached, ending conversation.]"

AttributeErrorMsg == "'dict' object has no attribute 'text'"

\* the test left out: a missing session is not noticed
SessionMissingNever(s) == FALSE

\* `if not self.session`
SessionMissing(s) == s = "None"

\* the test left out: an empty tool list is passed on to the Gateway
NoToolsNever(tools) == FALSE

\* `if not available_tools`
NoTools(tools) == tools = <<>>

\* the list comprehension of process_query over response.tools
AvailableTools(tools) ==
    [i \in 1..Len(tools) |->
        [name |-> tools[i].name,
         description |-> tools[i].description,
         input_schema |-> tools[i].inputSchema]]

\* variant: every failure of converse is raised as one generic error
MakeBedrockRequestErrorGeneric(mode) ==
    [type |-> "RuntimeError", msg |-> "an error occurred during the Bedrock API request"]

\* _make_bedrock_request: the exception raised for each failure of converse
MakeBedrockRequestError(mode) ==
    CASE mode = "ModelNotReadyException" ->
            [type |-> "RuntimeError",
             msg |-> "the model is currently unavailable. Retry after a while."]
      [] mode = "ValidationException" ->
            [type |-> "ValueError",
             msg |-> "the Bedrock API request is invalid: " \o "<detail>"]
      [] mode = "ThrottlingException" ->
            [type |-> "RuntimeError",
             msg |-> "the Bedrock API rate limit was reached. Retry after a while."]
      [] mode = "AccessDeniedException" ->
            [type |-> "PermissionError",
             msg |-> "no permission to access the Bedrock API. Check the AWS credentials."]
      [] OTHER ->
            [type |-> "RuntimeError",
             msg |-> "an error occurred during the Bedrock API request: " \o "<detail>"]

\* variant: the except clauses of process_query report nothing
ProcessQueryExceptSilent(exc) == ""

\* the except clauses of process_query
ProcessQueryExcept(exc) ==
    IF exc.type = "TimeoutError"
    THEN "ERROR: " \o "request processing timed out"
    ELSE "ERROR: " \o "an error occurred while processing the query: " \o exc.msg

\* variant: the except clauses return the bare exception text
ProcessResponseExceptBare(exc) == exc.msg

\* the except clauses of _process_response
ProcessResponseExcept(exc) ==
    IF exc.type = "KeyError"
    THEN "ERROR: a problem occurred while processing the response: " \o exc.msg
    ELSE "ERROR: " \o "an unexpected error occurred while processing the response: "
                   \o exc.msg

\* 'output' in response and 'message' in ... and 'content' in ...
HasContent(r) ==
    /\ "output" \in DOMAIN r
    /\ "message" \in DOMAIN r.output
    /\ "content" \in DOMAIN r.output.message

\* the first key of a toolUse block that the dispatch reads and does not find
MissingToolKey(tool_info) ==
    IF "name" \notin DOMAIN tool_info THEN "'name'"
    ELSE IF "input" \notin DOMAIN tool_info THEN "'input'"
    ELSE IF "toolUseId" \notin DOMAIN tool_info THEN "'toolUseId'"
    ELSE ""

\* the limit test off by one: `turn_count > MAX_TURNS`
LimitReachedLate(tc) == tc > MAX_TURNS

\* the limit test left out
LimitReachedNever(tc) == FALSE

\* `if turn_count >= MAX_TURNS`
LimitReached(tc) == tc >= MAX_TURNS

\* the limit exit without its marker
LimitExitNoMarker(ft) == ft

\* what the loop appends when the limit is reached
LimitExit(ft) == Append(ft, MaxTurnsMarker)

\* `not result or not result.content`
IsEmptyResult(out) == out.isNone \/ out.content = <<>>

\* an except clause of _handle_tool_call: it appends the tool request, then
\* builds the tool result from [error_result], a list holding a dict
ToolErrorHandler(msgs, tool_info, error_msg, frag) ==
    LET req == MessageToolRequest(tool_info.toolUseId, tool_info.name, tool_info.input)
        error_result == [py |-> "dict", text |-> error_msg]
    IN  IF MessageToolResultRaises(<<error_result>>)
        THEN [raised |-> TRUE,
              exc |-> [type |-> "AttributeError", msg |-> AttributeErrorMsg],
              messages |-> Append(msgs, req),
              frags |-> <<>>]
        ELSE [raised |-> FALSE,
              exc |-> [type |-> "", msg |-> ""],
              messages |-> Append(Append(msgs, req),
                                  MessageToolResult(tool_info.toolUseId, <<error_result>>)),
              frags |-> <<frag>>]

\* the `except Exception as e` clause of _handle_tool_call
ToolExceptHandler(msgs, tool_info, msg) ==
    ToolErrorHandler(msgs, tool_info, "tool execution error: " \o msg,
                     "[Error calling tool " \o tool_info.name \o ": " \o msg \o "]")

\* _handle_tool_call from the moment call_tool has returned or raised `out`:
\* the messages it leaves, the fragments it returns, or the exception that
\* escapes it
HandleToolCall(tool_info, msgs, out) ==
    LET name == tool_info.name
        id == tool_info.toolUseId
        req == MessageToolRequest(id, name, tool_info.input)
        empty_result == [py |-> "dict",
                         text |-> "the response of tool " \o name \o " is empty"]
    IN  IF out.raised
        THEN CASE out.type = "TimeoutError" ->
                    ToolErrorHandler(msgs, tool_info,
                        "the execution of tool " \o name \o " timed out",
                        "[Error: " \o "the execution of tool " \o name \o " timed out" \o "]")
               [] out.type = "KeyError" ->
                    ToolErrorHandler(msgs, tool_info,
                        "a parameter needed to call tool " \o name \o " is missing: "
                            \o out.msg,
                        "[Error: " \o "a parameter needed to call tool " \o name
                            \o " is missing: " \o out.msg \o "]")
               [] OTHER -> ToolExceptHandler(msgs, tool_info, out.msg)
        ELSE IF IsEmptyResult(out)
        THEN IF MessageToolResultRaises(<<empty_result>>)
             THEN ToolExceptHandler(Append(msgs, req), tool_info, AttributeErrorMsg)
             ELSE [raised |-> FALSE,
                   exc |-> [type |-> "", msg |-> ""],
                   messages |-> Append(Append(msgs, req),
                                       MessageToolResult(id, <<empty_result>>)),
                   frags |-> <<"[Tool " \o name \o " returned empty response]">>]
        ELSE IF MessageToolResultRaises(out.content)
        THEN ToolExceptHandler(Append(msgs, req), tool_info,
                               "'ImageContent' object has no attribute 'text'")
        ELSE [raised |-> FALSE,
              exc |-> [type |-> "", msg |-> ""],
              messages |-> Append(Append(msgs, req), MessageToolResult(id, out.content)),
              frags |-> <<"[Calling tool " \o name \o " with args " \o tool_info.input
                            \o "]">>]

-----------------------------------------------------------------------------
(* The state machine *)

\* main is not running
MainIdle ==
    /\ mainPc = "off"
    /\ server = 0
    /\ connectLog = <<>>
    /\ chatLog = <<>>
    /\ reportLog = <<>>
    /\ cleanupLog = <<>>

\* main of client/client.py is not running
CliIdle ==
    /\ cliPc = "off"
    /\ mcp_clients = 0
    /\ entered = 0
    /\ clients = 0
    /\ agent = "none"
    /\ reads = 0
    /\ asked = <<>>
    /\ cliOut = ""

\* connect_to_minecraft has not been called
ConnIdle ==
    /\ max_retries = 0
    /\ retry_delay = 0
    /\ attempt = 0
    /\ connPc = "off"
    /\ connLog = <<>>
    /\ slept = 0

\* tools/setBlocks.py is not running
ScriptIdle ==
    /\ scriptPc = "off"
    /\ argv = EmptyDict
    /\ exit_code = "none"
    /\ stdout = ""
    /\ stderr = ""
    /\ setBlocksCalls = 0

\* the setBlocks tool has not been called
ToolIdle ==
    /\ toolPc = "off"
    /\ params = EmptyDict
    /\ toolResult = ""
    /\ spawned = 0

\* the server side is not running
ServerIdle == ToolIdle /\ ScriptIdle /\ ConnIdle

\* nothing outside process_query and chat_loop is running
OtherIdle == MainIdle /\ CliIdle /\ ServerIdle

NoOutcome == EmptyDict

Init ==
    /\ session = "None"
    /\ pc = "idle"
    /\ query = <<>>
    /\ messages = <<>>
    /\ bedrock_tools = <<>>
    /\ response = EmptyDict
    /\ content = <<>>
    /\ idx = 0
    /\ final_text = <<>>
    /\ turn_count = 0
    /\ ret = NoReturn
    /\ gwCalls = 0
    /\ gwFailures = 0
    /\ gwErrors = <<>>
    /\ toolLog = <<>>
    /\ lastTool = NoOutcome
    /\ listTools = "no call"
    /\ available_tools = <<>>
    /\ chat = "off"
    /\ printed = ""
    /\ hadFailure = FALSE
    /\ OtherIdle

\* `return value` out of process_query
Return(value) == pc' = "done" /\ ret' = value

\* connect_to_server: the session is assigned before initialize() is awaited,
\* so a failure leaves it None or assigned but not initialized
ConnectToServer ==
    /\ pc = "idle"
    /\ session = "None"
    /\ session' \in {"initialized", "uninitialized", "None"}
    /\ UNCHANGED <<pc, query, messages, bedrock_tools, response, content, idx,
                   final_text, turn_count, ret, gwCalls, gwFailures, gwErrors, toolLog,
                   lastTool, listTools, available_tools>>
    /\ UNCHANGED chatVars
    /\ UNCHANGED otherVars

\* variant: the history is kept across calls; the query is appended to it
ProcessQueryCallKeepsHistory(q) ==
    /\ query' = q
    /\ IF IsBlankQuery(q)
       THEN Return(EmptyQueryMsg) /\ UNCHANGED <<messages, listTools>>
       ELSE IF SessionMissing(session)
       THEN Return(NotConnectedMsg) /\ UNCHANGED <<messages, listTools>>
       ELSE /\ messages' = Append(messages, MessageUser(Text(q)))
            /\ listTools' = "pending"
            /\ pc' = "list_tools"
            /\ ret' = ret
    /\ UNCHANGED <<session, bedrock_tools, response, content, idx, final_text,
                   turn_count, gwCalls, gwFailures, gwErrors, toolLog, lastTool,
                   available_tools>>

\* process_query(q) up to `await self.session.list_tools()`
ProcessQueryCall(q) ==
    /\ query' = q
    /\ IF IsBlankQuery(q)
       THEN Return(EmptyQueryMsg) /\ messages' = <<>> /\ UNCHANGED listTools
       ELSE IF SessionMissing(session)
       THEN Return(NotConnectedMsg) /\ messages' = <<>> /\ UNCHANGED listTools
       ELSE /\ messages' = <<MessageUser(Text(q))>>
            /\ listTools' = "pending"
            /\ pc' = "list_tools"
            /\ ret' = ret
    /\ UNCHANGED <<session, bedrock_tools, response, content, idx, final_text,
                   turn_count, gwCalls, gwFailures, gwErrors, toolLog, lastTool,
                   available_tools>>

\* a caller other than chat_loop awaits process_query with some query
ProcessQuery ==
    /\ pc = "idle"
    /\ chat = "off"
    /\ \E q \in Queries : ProcessQueryCall(q)
    /\ UNCHANGED chatVars
    /\ UNCHANGED otherVars

\* list_tools returned: process_query up to the first Gateway call
ListToolsReturns ==
    /\ pc = "list_tools"
    /\ session = "initialized"
    /\ \E tools \in ToolLists :
        /\ available_tools' = AvailableTools(tools)
        /\ listTools' = "returned"
        /\ IF NoTools(AvailableTools(tools))
           THEN Return(NoToolsMsg) /\ UNCHANGED <<bedrock_tools, gwCalls>>
           ELSE IF ToBedrockFormatRaises(AvailableTools(tools))
           THEN /\ Return(ProcessQueryExcept(
                        [type |-> "KeyError",
                         msg |-> MissingSchemaKey(AvailableTools(tools))]))
                /\ UNCHANGED <<bedrock_tools, gwCalls>>
           ELSE /\ bedrock_tools' = ToBedrockFormat(AvailableTools(tools))
                /\ gwCalls' = gwCalls + 1
                /\ pc' = "gateway"
                /\ ret' = ret
    /\ UNCHANGED <<session, query, messages, response, content, idx, final_text,
                   turn_count, gwFailures, gwErrors, toolLog, lastTool>>
    /\ UNCHANGED chatVars
    /\ UNCHANGED otherVars

\* list_tools raised: the except clauses of process_query
ListToolsRaises ==
    /\ pc = "list_tools"
    /\ \E exc \in ListToolsErrors :
        /\ listTools' = "raised"
        /\ Return(ProcessQueryExcept(exc))
    /\ UNCHANGED <<session, query, messages, bedrock_tools, response, content, idx,
                   final_text, turn_count, gwCalls, gwFailures, gwErrors, toolLog, lastTool,
                   available_tools>>
    /\ UNCHANGED chatVars
    /\ UNCHANGED otherVars

\* the first Gateway call returned: the checks that open _process_response
GatewayResponds ==
    /\ pc = "gateway"
    /\ \E r \in GatewayResponses(gwCalls) :
        /\ response' = r
        /\ IF r = EmptyDict
           THEN Return(EmptyResponseMsg)
           ELSE IF "stopReason" \notin DOMAIN r
           THEN Return(BadResponseMsg)
           ELSE pc' = "while" /\ ret' = ret
    /\ final_text' = <<>>
    /\ turn_count' = 0
    /\ UNCHANGED <<session, query, messages, bedrock_tools, content, idx, gwCalls,
                   gwFailures, gwErrors, toolLog, lastTool, listTools, available_tools>>
    /\ UNCHANGED chatVars
    /\ UNCHANGED otherVars

\* the first Gateway call raised: the except clauses of process_query
GatewayRaises ==
    /\ pc = "gateway"
    /\ \E mode \in GatewayFailureModes :
        /\ Return(ProcessQueryExcept(MakeBedrockRequestError(mode)))
        /\ gwErrors' = Append(gwErrors, [mode |-> mode,
                                        exc |-> MakeBedrockRequestError(mode)])
    /\ gwFailures' = gwFailures + 1
    /\ UNCHANGED <<session, query, messages, bedrock_tools, response, content, idx,
                   final_text, turn_count, gwCalls, toolLog, lastTool, listTools,
                   available_tools>>
    /\ UNCHANGED chatVars
    /\ UNCHANGED otherVars

\* the fragment of a response whose stop reason ends the loop
TerminalFragment(r) ==
    CASE r.stopReason = "max_tokens" -> "[Max tokens reached, ending conversation.]"
      [] r.stopReason = "stop_sequence" -> "[Stop sequence reached, ending conversation.]"
      [] r.stopReason = "content_filtered" -> "[Content filtered, ending conversation.]"
      [] r.stopReason = "end_turn" ->
            IF HasContent(r) /\ r.output.message.content # <<>>
            THEN IF "text" \in DOMAIN r.output.message.content[1]
                 THEN r.output.message.content[1].text
                 ELSE "[Response contains no text]"
            ELSE "[Error: Invalid response format]"
      [] OTHER -> "[Unknown stop reason: " \o r.stopReason \o "]"

\* variant: a pass of the loop counts for two turns
EndOfTurnCountsTwice(ft) ==
    /\ turn_count' = turn_count + 2
    /\ IF LimitReached(turn_count + 2)
       THEN final_text' = LimitExit(ft) /\ Return(Join(LimitExit(ft)))
       ELSE final_text' = ft /\ pc' = "while" /\ ret' = ret

\* the end of one pass of the while loop: count the turn, stop at the limit
EndOfTurn(ft) ==
    /\ turn_count' = turn_count + 1
    /\ IF LimitReached(turn_count + 1)
       THEN final_text' = LimitExit(ft) /\ Return(Join(LimitExit(ft)))
       ELSE final_text' = ft /\ pc' = "while" /\ ret' = ret

\* the head of `while True`: branch on the stop reason of `response`
WhileStep ==
    /\ pc = "while"
    /\ IF "stopReason" \notin DOMAIN response
       THEN /\ Return(ProcessResponseExcept([type |-> "KeyError", msg |-> "'stopReason'"]))
            /\ UNCHANGED <<final_text, content, idx>>
       ELSE IF response.stopReason = "tool_use"
       THEN IF ~HasContent(response)
            THEN /\ final_text' = final_text \o <<"received toolUse request",
                                                 "[Error: Invalid tool use request format]">>
                 /\ Return(Join(final_text'))
                 /\ UNCHANGED <<content, idx>>
            ELSE /\ final_text' = Append(final_text, "received toolUse request")
                 /\ content' = response.output.message.content
                 /\ idx' = 1
                 /\ pc' = "for"
                 /\ ret' = ret
       ELSE /\ final_text' = Append(final_text, TerminalFragment(response))
            /\ Return(Join(final_text'))
            /\ UNCHANGED <<content, idx>>
    /\ UNCHANGED <<session, query, messages, bedrock_tools, response, turn_count,
                   gwCalls, gwFailures, gwErrors, toolLog, lastTool, listTools, available_tools>>
    /\ UNCHANGED chatVars
    /\ UNCHANGED otherVars

\* variant: the tool request is put in the history before call_tool is awaited
ForStepRequestFirst ==
    /\ pc = "for"
    /\ IF idx > Len(content)
       THEN /\ EndOfTurn(final_text)
            /\ UNCHANGED <<messages, idx, toolLog>>
       ELSE IF "text" \in DOMAIN content[idx]
       THEN /\ final_text' = Append(final_text, "[Thinking: " \o content[idx].text \o "]")
            /\ messages' = Append(messages, MessageAssistant(content[idx].text))
            /\ idx' = idx + 1
            /\ UNCHANGED <<pc, ret, turn_count, toolLog>>
       ELSE IF "toolUse" \in DOMAIN content[idx]
       THEN IF MissingToolKey(content[idx].toolUse) # ""
            THEN /\ Return(ProcessResponseExcept(
                        [type |-> "KeyError", msg |-> MissingToolKey(content[idx].toolUse)]))
                 /\ UNCHANGED <<final_text, messages, idx, turn_count, toolLog>>
            ELSE /\ toolLog' = Append(toolLog, content[idx].toolUse.toolUseId)
                 /\ pc' = "call_tool"
                 /\ messages' = Append(messages,
                        MessageToolRequest(content[idx].toolUse.toolUseId,
                                           content[idx].toolUse.name,
                                           content[idx].toolUse.input))
                 /\ UNCHANGED <<final_text, idx, turn_count, ret>>
       ELSE /\ idx' = idx + 1
            /\ UNCHANGED <<final_text, messages, pc, ret, turn_count, toolLog>>
    /\ UNCHANGED <<session, query, bedrock_tools, response, content, gwCalls,
                   gwFailures, gwErrors, lastTool, listTools, available_tools>>
    /\ UNCHANGED chatVars
    /\ UNCHANGED otherVars

\* one step of `for item in content`, up to `await call_tool`; past the last
\* item the turn ends
ForStep ==
    /\ pc = "for"
    /\ IF idx > Len(content)
       THEN /\ EndOfTurn(final_text)
            /\ UNCHANGED <<messages, idx, toolLog>>
       ELSE IF "text" \in DOMAIN content[idx]
       THEN /\ final_text' = Append(final_text, "[Thinking: " \o content[idx].text \o "]")
            /\ messages' = Append(messages, MessageAssistant(content[idx].text))
            /\ idx' = idx + 1
            /\ UNCHANGED <<pc, ret, turn_count, toolLog>>
       ELSE IF "toolUse" \in DOMAIN content[idx]
       THEN IF MissingToolKey(content[idx].toolUse) # ""
            THEN /\ Return(ProcessResponseExcept(
                        [type |-> "KeyError", msg |-> MissingToolKey(content[idx].toolUse)]))
                 /\ UNCHANGED <<final_text, messages, idx, turn_count, toolLog>>
            ELSE /\ toolLog' = Append(toolLog, content[idx].toolUse.toolUseId)
                 /\ pc' = "call_tool"
                 /\ UNCHANGED <<final_text, messages, idx, turn_count, ret>>
       ELSE /\ idx' = idx + 1
            /\ UNCHANGED <<final_text, messages, pc, ret, turn_count, toolLog>>
    /\ UNCHANGED <<session, query, bedrock_tools, response, content, gwCalls,
                   gwFailures, gwErrors, lastTool, listTools, available_tools>>
    /\ UNCHANGED chatVars
    /\ UNCHANGED otherVars

\* variant: the tool results of one response are collected first; no Gateway
\* call is made between two toolUse blocks
CallToolCompletesBatched ==
    /\ pc = "call_tool"
    /\ \E out \in CallToolOutcomes :
        LET h == HandleToolCall(content[idx].toolUse, messages, out)
        IN  /\ lastTool' = out
            /\ messages' = h.messages
            /\ IF h.raised
               THEN /\ Return(ProcessResponseExcept(h.exc))
                    /\ UNCHANGED <<final_text, idx>>
               ELSE /\ final_text' = final_text \o h.frags
                    /\ idx' = idx + 1
                    /\ pc' = "for"
                    /\ ret' = ret
    /\ UNCHANGED <<session, query, bedrock_tools, response, content, turn_count,
                   gwCalls, gwFailures, gwErrors, toolLog, listTools, available_tools>>
    /\ UNCHANGED chatVars
    /\ UNCHANGED otherVars

\* call_tool returned or raised: the rest of _handle_tool_call, then the
\* follow-up Gateway call is made
CallToolCompletes ==
    /\ pc = "call_tool"
    /\ \E out \in CallToolOutcomes :
        LET h == HandleToolCall(content[idx].toolUse, messages, out)
        IN  /\ lastTool' = out
            /\ messages' = h.messages
            /\ IF h.raised
               THEN /\ Return(ProcessResponseExcept(h.exc))
                    /\ UNCHANGED <<final_text, gwCalls>>
               ELSE /\ final_text' = final_text \o h.frags
                    /\ gwCalls' = gwCalls + 1
                    /\ pc' = "followup"
                    /\ ret' = ret
    /\ UNCHANGED <<session, query, bedrock_tools, response, content, idx, turn_count,
                   gwFailures, gwErrors, toolLog, listTools, available_tools>>
    /\ UNCHANGED chatVars
    /\ UNCHANGED otherVars

\* the follow-up Gateway call returned: `response` is replaced and the for
\* loop goes on over the list it started with
FollowupResponds ==
    /\ pc = "followup"
    /\ \E r \in GatewayResponses(gwCalls) : response' = r
    /\ idx' = idx + 1
    /\ pc' = "for"
    /\ UNCHANGED <<session, query, messages, bedrock_tools, content, final_text,
                   turn_count, ret, gwCalls, gwFailures, gwErrors, toolLog, lastTool, listTools,
                   available_tools>>
    /\ UNCHANGED chatVars
    /\ UNCHANGED otherVars

\* the follow-up Gateway call raised: the fragment is appended and `break`
\* leaves the for loop
FollowupRaises ==
    /\ pc = "followup"
    /\ \E mode \in GatewayFailureModes :
        /\ EndOfTurn(Append(final_text,
                            "[Error during follow-up request: "
                                \o MakeBedrockRequestError(mode).msg \o "]"))
        /\ gwErrors' = Append(gwErrors, [mode |-> mode,
                                        exc |-> MakeBedrockRequestError(mode)])
    /\ gwFailures' = gwFailures + 1
    /\ UNCHANGED <<session, query, messages, bedrock_tools, response, content, idx,
                   gwCalls, toolLog, lastTool, listTools, available_tools>>
    /\ UNCHANGED chatVars
    /\ UNCHANGED otherVars

Next ==
    \/ ConnectToServer
    \/ ProcessQuery
    \/ ListToolsReturns
    \/ ListToolsRaises
    \/ GatewayResponds
    \/ GatewayRaises
    \/ WhileStep
    \/ ForStep
    \/ CallToolCompletes
    \/ FollowupResponds
    \/ FollowupRaises

Spec == Init /\ [][Next]_vars

\* every step of a query is taken eventually: each collaborator call returns
\* or raises, and the coroutine is resumed
FairSpec == Spec /\ WF_vars(Next)

-----------------------------------------------------------------------------
(* chat_loop *)

\* str.lower() on the characters the input lines use
LowerChar(c) ==
    CASE c = "Q" -> "q" [] c = "U" -> "u" [] c = "I" -> "i" [] c = "T" -> "t"
      [] OTHER -> c

Lower(s) == [i \in 1..Len(s) |-> LowerChar(s[i])]

\* the lines the user types at the prompt: an empty line, a query with
\* surrounding whitespace, and the word quit in mixed case
InputLines ==
    { <<>>, <<" ", "h", "i", " ">>, <<" ", "Q", "u", "i", "T", " ">> }

EOFErrorMsg == "EOF when reading a line"

Banner == "\nMCP Client Started!\nType your queries or 'quit' to exit."

\* the query that has returned met a failure: list_tools, a Gateway call or
\* the tool call raised
QueryFailed ==
    \/ listTools = "raised"
    \/ gwFailures > 0
    \/ "raised" \in DOMAIN lastTool /\ lastTool.raised

\* main: chat_loop is awaited once connect_to_server has returned
ChatStart ==
    /\ chat = "off"
    /\ pc = "idle"
    /\ session = "initialized"
    /\ chat' = "input"
    /\ printed' = Banner
    /\ UNCHANGED <<session, pc, query, messages, bedrock_tools, response, content,
                   idx, final_text, turn_count, ret, gwCalls, gwFailures, gwErrors,
                   toolLog, lastTool, listTools, available_tools, hadFailure>>
    /\ UNCHANGED otherVars

\* variant: `query == 'quit'`
IsQuitCaseSensitive(q) == q = <<"q", "u", "i", "t">>

\* `query.lower() == 'quit'`
IsQuit(q) == Lower(q) = <<"q", "u", "i", "t">>

\* input() returned a line: `quit` leaves the loop, anything else is passed,
\* stripped, to process_query
ChatInput ==
    /\ chat = "input"
    /\ pc = "idle"
    /\ printed' = ""
    /\ \E line \in InputLines :
        IF IsQuit(Strip(line))
        THEN /\ chat' = "ended"
             /\ UNCHANGED <<session, pc, query, messages, bedrock_tools, response,
                            content, idx, final_text, turn_count, ret, gwCalls,
                            gwFailures, gwErrors, toolLog, lastTool, listTools,
                            available_tools>>
        ELSE /\ chat' = "query"
             /\ ProcessQueryCall(Strip(line))
    /\ UNCHANGED hadFailure
    /\ UNCHANGED otherVars

\* input() raised (end of input): `except Exception` prints and the loop
\* goes round
ChatInputRaises ==
    /\ chat = "input"
    /\ pc = "idle"
    /\ printed' = "\nError: " \o EOFErrorMsg
    /\ UNCHANGED <<session, pc, query, messages, bedrock_tools, response, content,
                   idx, final_text, turn_count, ret, gwCalls, gwFailures, gwErrors,
                   toolLog, lastTool, listTools, available_tools, chat, hadFailure>>
    /\ UNCHANGED otherVars

\* where chat_loop stands after a query that ended in a failure, were it to
\* give up on the first failure
AfterQueryGiveUp(failed) == IF failed THEN "ended" ELSE "input"

\* where chat_loop stands after process_query has returned: back at the
\* prompt, whatever the query returned
AfterQuery(failed) == "input"

\* process_query returned: `print("\n" + response)` and the loop goes round.
\* The locals of the returned call are gone; the list that held its history
\* is left as it was, the next call builds its own.
ChatPrint ==
    /\ chat = "query"
    /\ pc = "done"
    /\ printed' = "\n" \o ret
    /\ chat' = AfterQuery(QueryFailed)
    /\ hadFailure' = (hadFailure \/ QueryFailed)
    /\ pc' = "idle"
    /\ query' = <<>>
    /\ bedrock_tools' = <<>>
    /\ response' = EmptyDict
    /\ content' = <<>>
    /\ idx' = 0
    /\ final_text' = <<>>
    /\ turn_count' = 0
    /\ ret' = NoReturn
    /\ gwCalls' = 0
    /\ gwFailures' = 0
    /\ gwErrors' = <<>>
    /\ toolLog' = <<>>
    /\ lastTool' = NoOutcome
    /\ listTools' = "no call"
    /\ available_tools' = <<>>
    /\ UNCHANGED <<session, messages>>
    /\ UNCHANGED otherVars

ChatNext ==
    \/ ConnectToServer
    \/ ChatStart
    \/ ChatInput
    \/ ChatInputRaises
    \/ ListToolsReturns
    \/ ListToolsRaises
    \/ GatewayResponds
    \/ GatewayRaises
    \/ WhileStep
    \/ ForStep
    \/ CallToolCompletes
    \/ FollowupResponds
    \/ FollowupRaises
    \/ ChatPrint

ChatSpec == Init /\ [][ChatNext]_vars

\* every awaited call returns or raises and the loop is resumed
ChatFairSpec == ChatSpec /\ WF_vars(ChatNext)

-----------------------------------------------------------------------------
(* Message.to_bedrock_format on its own *)

MaxTools == 3

\* a descriptor whose input_schema has no 'properties' entry
NoPropertiesTool ==
    [name |-> "listBlocks", description |-> "list block types",
     inputSchema |-> [type |-> "object", required |-> "[]"]]

\* the descriptors a caller can hand to to_bedrock_format
Descriptors ==
    { AvailableTools(<<t>>)[1] :
        t \in {CaptureTool, SetBlockTool, NoRequiredTool, NoPropertiesTool} }

\* the descriptor lists of at most MaxTools entries
DescriptorLists ==
    UNION { [1..n -> Descriptors] : n \in 0..MaxTools }

\* a caller holds a descriptor list and is about to translate it
FormatInit ==
    /\ available_tools \in DescriptorLists
    /\ pc = "format"
    /\ session = "None"
    /\ query = <<>>
    /\ messages = <<>>
    /\ bedrock_tools = <<>>
    /\ response = EmptyDict
    /\ content = <<>>
    /\ idx = 0
    /\ final_text = <<>>
    /\ turn_count = 0
    /\ ret = NoReturn
    /\ gwCalls = 0
    /\ gwFailures = 0
    /\ gwErrors = <<>>
    /\ toolLog = <<>>
    /\ lastTool = NoOutcome
    /\ listTools = "no call"
    /\ chat = "off"
    /\ printed = ""
    /\ hadFailure = FALSE
    /\ OtherIdle

\* Message.to_bedrock_format(available_tools), a first and a second time:
\* the list comprehension returns the translated list or raises KeyError
ToBedrockFormatCall ==
    /\ pc \in {"format", "formatted"}
    /\ IF ToBedrockFormatRaises(available_tools)
       THEN /\ pc' = "format_raised"
            /\ ret' = "KeyError: " \o MissingSchemaKey(available_tools)
            /\ UNCHANGED bedrock_tools
       ELSE /\ pc' = IF pc = "format" THEN "formatted" ELSE "formatted_twice"
            /\ bedrock_tools' = ToBedrockFormat(available_tools)
            /\ UNCHANGED ret
    /\ UNCHANGED <<session, query, messages, response, content, idx, final_text,
                   turn_count, gwCalls, gwFailures, gwErrors, toolLog, lastTool,
                   listTools, available_tools>>
    /\ UNCHANGED chatVars
    /\ UNCHANGED otherVars

FormatNext == ToBedrockFormatCall

FormatSpec == FormatInit /\ [][FormatNext]_vars

-----------------------------------------------------------------------------
(* main of client/bedrock.py *)

\* how many keys config['mcpServers'] has
MaxServers == 2

\* the configuration is about to be loaded; no client exists yet
MainInit ==
    /\ session = "None"
    /\ pc = "idle"
    /\ query = <<>>
    /\ messages = <<>>
    /\ bedrock_tools = <<>>
    /\ response = NoOutcome
    /\ content = <<>>
    /\ idx = 0
    /\ final_text = <<>>
    /\ turn_count = 0
    /\ ret = NoReturn
    /\ gwCalls = 0
    /\ gwFailures = 0
    /\ gwErrors = <<>>
    /\ toolLog = <<>>
    /\ lastTool = NoOutcome
    /\ listTools = "none"
    /\ available_tools = <<>>
    /\ chat = "off"
    /\ printed = ""
    /\ hadFailure = FALSE
    /\ mainPc = "load"
    /\ server = 0
    /\ connectLog = <<>>
    /\ chatLog = <<>>
    /\ reportLog = <<>>
    /\ cleanupLog = <<>>
    /\ CliIdle
    /\ ServerIdle

\* load_config and the two checks on the configuration: the server loop is
\* entered, or the error is printed and sys.exit(1) is called
MainLoadConfig ==
    /\ mainPc = "load"
    /\ mainPc' \in {"for", "exit1"}
    /\ UNCHANGED <<server, connectLog, chatLog, reportLog, cleanupLog>>
    /\ UNCHANGED queryVars
    /\ UNCHANGED chatVars
    /\ UNCHANGED <<cliVars, serverVars>>

\* `for key in server_config.keys()` takes the next key and `MCPClient()`
\* makes its client, or the keys are exhausted
MainForStep ==
    /\ mainPc = "for"
    /\ IF server < MaxServers
         THEN /\ server' = server + 1
              /\ mainPc' = "connect"
              /\ session' = "None"
              /\ messages' = <<>>
              /\ chat' = "off"
              /\ printed' = ""
              /\ hadFailure' = FALSE
         ELSE /\ mainPc' = "done"
              /\ UNCHANGED <<server, session, messages, chat, printed, hadFailure>>
    /\ UNCHANGED <<connectLog, chatLog, reportLog, cleanupLog>>
    /\ UNCHANGED <<pc, query, bedrock_tools, response, content, idx, final_text,
                   turn_count, ret, gwCalls, gwFailures, gwErrors, toolLog, lastTool,
                   listTools, available_tools>>
    /\ UNCHANGED <<cliVars, serverVars>>

\* `await client.connect_to_server(...)` returns
MainConnectReturns ==
    /\ mainPc = "connect"
    /\ session' = "initialized"
    /\ connectLog' = Append(connectLog, server)
    /\ mainPc' = "connected"
    /\ UNCHANGED <<server, chatLog, reportLog, cleanupLog>>
    /\ UNCHANGED <<pc, query, messages, bedrock_tools, response, content, idx,
                   final_text, turn_count, ret, gwCalls, gwFailures, gwErrors, toolLog,
                   lastTool, listTools, available_tools>>
    /\ UNCHANGED chatVars
    /\ UNCHANGED <<cliVars, serverVars>>

\* variant: the handlers fall through to the next key
AfterConnectFailureNoFinally == "for"

\* where main goes once an except clause has printed: the `finally` clause
AfterConnectFailure == "finally"

\* `await client.connect_to_server(...)` raises at any of its awaits; the
\* matching except clause prints the error
MainConnectRaises ==
    /\ mainPc = "connect"
    /\ session' \in {"None", "uninitialized", "initialized"}
    /\ connectLog' = Append(connectLog, server)
    /\ reportLog' = Append(reportLog, server)
    /\ mainPc' = AfterConnectFailure
    /\ UNCHANGED <<server, chatLog, cleanupLog>>
    /\ UNCHANGED <<pc, query, messages, bedrock_tools, response, content, idx,
                   final_text, turn_count, ret, gwCalls, gwFailures, gwErrors, toolLog,
                   lastTool, listTools, available_tools>>
    /\ UNCHANGED chatVars
    /\ UNCHANGED <<cliVars, serverVars>>

\* `await client.chat_loop()` is entered and prints its banner
MainChatStart ==
    /\ mainPc = "connected"
    /\ chat = "off"
    /\ chat' = "input"
    /\ printed' = Banner
    /\ chatLog' = Append(chatLog, server)
    /\ mainPc' = "chat"
    /\ UNCHANGED <<server, connectLog, reportLog, cleanupLog, hadFailure>>
    /\ UNCHANGED queryVars
    /\ UNCHANGED <<cliVars, serverVars>>

\* chat_loop returns after 'quit'
MainChatReturns ==
    /\ mainPc = "chat"
    /\ chat = "ended"
    /\ mainPc' = "finally"
    /\ UNCHANGED <<server, connectLog, chatLog, reportLog, cleanupLog>>
    /\ UNCHANGED queryVars
    /\ UNCHANGED chatVars
    /\ UNCHANGED <<cliVars, serverVars>>

\* a KeyboardInterrupt at the prompt is no Exception: it leaves chat_loop and
\* passes every except clause of main
MainChatInterrupted ==
    /\ mainPc = "chat"
    /\ chat = "input"
    /\ chat' = "interrupted"
    /\ mainPc' = "finally_raising"
    /\ UNCHANGED <<server, connectLog, chatLog, reportLog, cleanupLog>>
    /\ UNCHANGED queryVars
    /\ UNCHANGED <<printed, hadFailure>>
    /\ UNCHANGED <<cliVars, serverVars>>

\* `finally: await client.cleanup()` returns: the loop goes on, or the pending
\* interrupt leaves main
MainCleanupReturns ==
    /\ mainPc \in {"finally", "finally_raising"}
    /\ cleanupLog' = Append(cleanupLog, server)
    /\ mainPc' = IF mainPc = "finally" THEN "for" ELSE "interrupted"
    /\ UNCHANGED <<server, connectLog, chatLog, reportLog>>
    /\ UNCHANGED queryVars
    /\ UNCHANGED chatVars
    /\ UNCHANGED <<cliVars, serverVars>>

\* exit_stack.aclose() raises inside cleanup: the outer `except Exception`
\* prints it and calls sys.exit(1)
MainCleanupRaises ==
    /\ mainPc \in {"finally", "finally_raising"}
    /\ cleanupLog' = Append(cleanupLog, server)
    /\ mainPc' = "exit1"
    /\ UNCHANGED <<server, connectLog, chatLog, reportLog>>
    /\ UNCHANGED queryVars
    /\ UNCHANGED chatVars
    /\ UNCHANGED <<cliVars, serverVars>>

MainNext ==
    \/ MainLoadConfig
    \/ MainForStep
    \/ MainConnectReturns
    \/ MainConnectRaises
    \/ MainChatStart
    \/ ChatInput
    \/ ChatInputRaises
    \/ ListToolsReturns
    \/ ListToolsRaises
    \/ GatewayResponds
    \/ GatewayRaises
    \/ WhileStep
    \/ ForStep
    \/ CallToolCompletes
    \/ FollowupResponds
    \/ FollowupRaises
    \/ ChatPrint
    \/ MainChatReturns
    \/ MainChatInterrupted
    \/ MainCleanupReturns
    \/ MainCleanupRaises

MainSpec == MainInit /\ [][MainNext]_vars

-----------------------------------------------------------------------------
(* The variant of the loop in client/main.py *)

\* the queries, Gateway answers and call_tool outcomes the variant is run
\* with: a part of those above
VariantQueries == { <<>>, <<" ", "h", "i">> }

VariantGatewayResponses(n) ==
    { GatewayResponse("tool_use", <<ToolUseBlock(n, 1, "capture")>>),
      GatewayResponse("tool_use", <<TextBlock("plan"), ToolUseBlock(n, 2, "setBlock")>>),
      GatewayResponse("tool_use", <<NamelessToolUseBlock(n, 1)>>),
      [stopReason |-> "tool_use"],
      GatewayResponse("end_turn", <<TextBlock("Hello")>>),
      GatewayResponse("end_turn", <<ToolUseBlock(n, 1, "capture"), TextBlock("Hello")>>),
      GatewayResponse("end_turn", <<>>),
      [stopReason |-> "end_turn"],
      GatewayResponse("max_tokens", <<TextBlock("Hel")>>),
      GatewayResponse("guardrail_intervened", <<>>),
      EmptyDict }

VariantCallToolOutcomes ==
    { [raised |-> FALSE, isNone |-> FALSE, content |-> <<TextContent("done")>>],
      [raised |-> FALSE, isNone |-> FALSE, content |-> <<ImageContent>>],
      [raised |-> FALSE, isNone |-> FALSE, content |-> <<>>],
      [raised |-> TRUE, type |-> "McpError", msg |-> "tool failed"] }

\* `MAX_TURNS` of client/main.py
MAX_TURNS_MAIN_PY == MaxTurnsBound

VariantMaxTurnsMarker == "\n[Max turns reached, ending conversation.]"

\* an exception leaves process_query: nothing in this variant catches it
\* before chat_loop
VariantRaise(exc) == pc' = "raised" /\ ret' = exc.type \o ": " \o exc.msg

\* _handle_tool_call of client/main.py from the moment call_tool has returned
\* or raised `out`: one try block holds call_tool, the append of the tool
\* request and the building of the tool result; its except clause returns the
\* error fragment and appends nothing
VariantHandleToolCall(tool_info, msgs, out) ==
    LET name == tool_info.name
        req == MessageToolRequest(tool_info.toolUseId, name, tool_info.input)
        failed(m, text) ==
            [messages |-> m,
             frags |-> <<"[Error calling tool " \o name \o ": " \o text \o "]">>]
    IN  IF out.raised
        THEN failed(msgs, out.msg)
        ELSE IF out.isNone
        THEN failed(Append(msgs, req), "'NoneType' object has no attribute 'content'")
        ELSE IF out.content = <<>>
        THEN failed(Append(msgs, req), "list index out of range")
        ELSE IF MessageToolResultRaises(out.content)
        THEN failed(Append(msgs, req), "'ImageContent' object has no attribute 'text'")
        ELSE [messages |-> Append(Append(msgs, req),
                                  MessageToolResult(tool_info.toolUseId, out.content)),
              frags |-> <<"[Calling tool " \o name \o " with args " \o tool_info.input
                            \o "]">>]

\* process_query(q) up to `await self.session.list_tools()`: no test of the
\* query or of the session
VariantProcessQuery ==
    /\ pc = "idle"
    /\ \E q \in VariantQueries :
        /\ query' = q
        /\ messages' = <<MessageUser(Text(q))>>
    /\ IF session = "None"
       THEN /\ VariantRaise([type |-> "AttributeError",
                             msg |-> "'NoneType' object has no attribute 'list_tools'"])
            /\ UNCHANGED listTools
       ELSE /\ pc' = "list_tools"
            /\ listTools' = "pending"
            /\ ret' = ret
    /\ UNCHANGED <<session, bedrock_tools, response, content, idx, final_text,
                   turn_count, gwCalls, gwFailures, gwErrors, toolLog, lastTool,
                   available_tools>>
    /\ UNCHANGED chatVars
    /\ UNCHANGED otherVars

\* connect_to_server of client/main.py: the session is assigned before
\* initialize() is awaited
VariantConnectToServer ==
    /\ pc = "idle"
    /\ session = "None"
    /\ session' \in {"initialized", "uninitialized", "None"}
    /\ UNCHANGED <<pc, query, messages, bedrock_tools, response, content, idx,
                   final_text, turn_count, ret, gwCalls, gwFailures, gwErrors, toolLog,
                   lastTool, listTools, available_tools>>
    /\ UNCHANGED chatVars
    /\ UNCHANGED otherVars

\* list_tools returned: process_query up to the Gateway call
VariantListToolsReturns ==
    /\ pc = "list_tools"
    /\ session = "initialized"
    /\ \E tools \in ToolLists :
        /\ available_tools' = AvailableTools(tools)
        /\ listTools' = "returned"
        /\ IF ToBedrockFormatRaises(AvailableTools(tools))
           THEN /\ VariantRaise([type |-> "KeyError",
                                 msg |-> MissingSchemaKey(AvailableTools(tools))])
                /\ UNCHANGED <<bedrock_tools, gwCalls>>
           ELSE /\ bedrock_tools' = ToBedrockFormat(AvailableTools(tools))
                /\ gwCalls' = gwCalls + 1
                /\ pc' = "gateway"
                /\ ret' = ret
    /\ UNCHANGED <<session, query, messages, response, content, idx, final_text,
                   turn_count, gwFailures, gwErrors, toolLog, lastTool>>
    /\ UNCHANGED chatVars
    /\ UNCHANGED otherVars

\* list_tools raised
VariantListToolsRaises ==
    /\ pc = "list_tools"
    /\ \E exc \in ListToolsErrors :
        /\ listTools' = "raised"
        /\ VariantRaise(exc)
    /\ UNCHANGED <<session, query, messages, bedrock_tools, response, content, idx,
                   final_text, turn_count, gwCalls, gwFailures, gwErrors, toolLog,
                   lastTool, available_tools>>
    /\ UNCHANGED chatVars
    /\ UNCHANGED otherVars

\* the first Gateway call returned: _process_response up to `while True`
VariantGatewayResponds ==
    /\ pc = "gateway"
    /\ \E r \in VariantGatewayResponses(gwCalls) :
        /\ response' = r
        /\ IF "stopReason" \notin DOMAIN r
           THEN VariantRaise([type |-> "KeyError", msg |-> "'stopReason'"])
           ELSE pc' = "while" /\ ret' = ret
    /\ final_text' = <<>>
    /\ turn_count' = 0
    /\ UNCHANGED <<session, query, messages, bedrock_tools, content, idx, gwCalls,
                   gwFailures, gwErrors, toolLog, lastTool, listTools, available_tools>>
    /\ UNCHANGED chatVars
    /\ UNCHANGED otherVars

\* a Gateway call raised, the first one or a follow-up
VariantGatewayRaises ==
    /\ pc \in {"gateway", "followup"}
    /\ \E mode \in GatewayFailureModes :
        /\ VariantRaise([type |-> mode, msg |-> "converse failed"])
        /\ gwErrors' = Append(gwErrors, [mode |-> mode,
                                        exc |-> [type |-> mode, msg |-> "converse failed"]])
    /\ gwFailures' = gwFailures + 1
    /\ UNCHANGED <<session, query, messages, bedrock_tools, response, content, idx,
                   final_text, turn_count, gwCalls, toolLog, lastTool, listTools,
                   available_tools>>
    /\ UNCHANGED chatVars
    /\ UNCHANGED otherVars

\* the stop reasons `while True` of client/main.py has a branch for
VariantStopReasons ==
    {"tool_use", "max_tokens", "stop_sequence", "content_filtered", "end_turn"}

\* the end of one pass of the while loop: count the turn, stop at the limit
VariantEndOfTurn(ft) ==
    /\ turn_count' = turn_count + 1
    /\ IF turn_count + 1 >= MAX_TURNS_MAIN_PY
       THEN /\ final_text' = Append(ft, VariantMaxTurnsMarker)
            /\ pc' = "done"
            /\ ret' = Join(final_text')
       ELSE final_text' = ft /\ pc' = "while" /\ ret' = ret

\* a response whose stop reason has no branch: the if/elif chain falls
\* through to the turn count, and the loop comes back to the same response
VariantNoBranch(ft, r) == VariantEndOfTurn(ft)

\* the head of `while True`: branch on the stop reason of `response`
VariantWhileStep ==
    /\ pc = "while"
    /\ IF "stopReason" \notin DOMAIN response
       THEN /\ VariantRaise([type |-> "KeyError", msg |-> "'stopReason'"])
            /\ UNCHANGED <<final_text, content, idx, turn_count>>
       ELSE IF response.stopReason = "tool_use"
       THEN IF ~HasContent(response)
            THEN /\ VariantRaise([type |-> "KeyError", msg |-> "'output'"])
                 /\ final_text' = Append(final_text, "received toolUse request")
                 /\ UNCHANGED <<content, idx, turn_count>>
            ELSE /\ final_text' = Append(final_text, "received toolUse request")
                 /\ content' = response.output.message.content
                 /\ idx' = 1
                 /\ pc' = "for"
                 /\ ret' = ret
                 /\ UNCHANGED turn_count
       ELSE IF response.stopReason \in {"max_tokens", "stop_sequence", "content_filtered"}
       THEN /\ final_text' = Append(final_text, TerminalFragment(response))
            /\ pc' = "done"
            /\ ret' = Join(final_text')
            /\ UNCHANGED <<content, idx, turn_count>>
       ELSE IF response.stopReason = "end_turn"
       THEN /\ IF ~HasContent(response)
               THEN VariantRaise([type |-> "KeyError", msg |-> "'output'"])
                    /\ UNCHANGED final_text
               ELSE IF response.output.message.content = <<>>
               THEN VariantRaise([type |-> "IndexError", msg |-> "list index out of range"])
                    /\ UNCHANGED final_text
               ELSE IF "text" \notin DOMAIN response.output.message.content[1]
               THEN VariantRaise([type |-> "KeyError", msg |-> "'text'"])
                    /\ UNCHANGED final_text
               ELSE /\ final_text' = Append(final_text,
                                            response.output.message.content[1].text)
                    /\ pc' = "done"
                    /\ ret' = Join(final_text')
            /\ UNCHANGED <<content, idx, turn_count>>
       ELSE /\ VariantNoBranch(final_text, response)
            /\ UNCHANGED <<content, idx>>
    /\ UNCHANGED <<session, query, messages, bedrock_tools, response, gwCalls,
                   gwFailures, gwErrors, toolLog, lastTool, listTools, available_tools>>
    /\ UNCHANGED chatVars
    /\ UNCHANGED otherVars

\* one step of `for item in content`, up to `await call_tool`; past the last
\* item the turn ends
VariantForStep ==
    /\ pc = "for"
    /\ IF idx > Len(content)
       THEN /\ VariantEndOfTurn(final_text)
            /\ UNCHANGED <<messages, idx, toolLog>>
       ELSE IF "text" \in DOMAIN content[idx]
       THEN /\ final_text' = Append(final_text, "[Thinking: " \o content[idx].text \o "]")
            /\ messages' = Append(messages, MessageAssistant(content[idx].text))
            /\ idx' = idx + 1
            /\ UNCHANGED <<pc, ret, turn_count, toolLog>>
       ELSE IF "toolUse" \in DOMAIN content[idx]
       THEN IF MissingToolKey(content[idx].toolUse) # ""
            THEN /\ VariantRaise([type |-> "KeyError",
                                  msg |-> MissingToolKey(content[idx].toolUse)])
                 /\ UNCHANGED <<final_text, messages, idx, turn_count, toolLog>>
            ELSE /\ toolLog' = Append(toolLog, content[idx].toolUse.toolUseId)
                 /\ pc' = "call_tool"
                 /\ UNCHANGED <<final_text, messages, idx, turn_count, ret>>
       ELSE /\ idx' = idx + 1
            /\ UNCHANGED <<final_text, messages, pc, ret, turn_count, toolLog>>
    /\ UNCHANGED <<session, query, bedrock_tools, response, content, gwCalls,
                   gwFailures, gwErrors, lastTool, listTools, available_tools>>
    /\ UNCHANGED chatVars
    /\ UNCHANGED otherVars

\* call_tool returned or raised: the rest of _handle_tool_call, then the
\* follow-up Gateway call is made, whatever _handle_tool_call returned
VariantCallToolCompletes ==
    /\ pc = "call_tool"
    /\ \E out \in VariantCallToolOutcomes :
        LET h == VariantHandleToolCall(content[idx].toolUse, messages, out)
        IN  /\ lastTool' = out
            /\ messages' = h.messages
            /\ final_text' = final_text \o h.frags
    /\ gwCalls' = gwCalls + 1
    /\ pc' = "followup"
    /\ UNCHANGED <<session, query, bedrock_tools, response, content, idx, turn_count,
                   ret, gwFailures, gwErrors, toolLog, listTools, available_tools>>
    /\ UNCHANGED chatVars
    /\ UNCHANGED otherVars

\* the follow-up Gateway call returned: `response` is replaced and the for
\* loop goes on over the list it started with
VariantFollowupResponds ==
    /\ pc = "followup"
    /\ \E r \in VariantGatewayResponses(gwCalls) : response' = r
    /\ idx' = idx + 1
    /\ pc' = "for"
    /\ UNCHANGED <<session, query, messages, bedrock_tools, content, final_text,
                   turn_count, ret, gwCalls, gwFailures, gwErrors, toolLog, lastTool,
                   listTools, available_tools>>
    /\ UNCHANGED chatVars
    /\ UNCHANGED otherVars

VariantNext ==
    \/ VariantConnectToServer
    \/ VariantProcessQuery
    \/ VariantListToolsReturns
    \/ VariantListToolsRaises
    \/ VariantGatewayResponds
    \/ VariantGatewayRaises
    \/ VariantWhileStep
    \/ VariantForStep
    \/ VariantCallToolCompletes
    \/ VariantFollowupResponds

VariantSpec == Init /\ [][VariantNext]_vars

-----------------------------------------------------------------------------
(* main of client/client.py *)

\* how many clients load_mcp_clients returns at most
MaxClients == 2

\* how many lines are read at the prompt
MaxInputs == 3

\* the lines typed at the prompt of client.py
CliMessages ==
    { <<>>, <<" ", " ">>, <<"h", "i">>, <<"e", "x", "i", "t">>,
      <<"Q", "u", "i", "T">>, <<" ", "q", "u", "i", "t">> }

\* load_mcp_clients is about to be called
CliInit ==
    /\ session = "None"
    /\ pc = "idle"
    /\ query = <<>>
    /\ messages = <<>>
    /\ bedrock_tools = <<>>
    /\ response = NoOutcome
    /\ content = <<>>
    /\ idx = 0
    /\ final_text = <<>>
    /\ turn_count = 0
    /\ ret = NoReturn
    /\ gwCalls = 0
    /\ gwFailures = 0
    /\ gwErrors = <<>>
    /\ toolLog = <<>>
    /\ lastTool = NoOutcome
    /\ listTools = "none"
    /\ available_tools = <<>>
    /\ chat = "off"
    /\ printed = ""
    /\ hadFailure = FALSE
    /\ MainIdle
    /\ cliPc = "load"
    /\ mcp_clients = 0
    /\ entered = 0
    /\ clients = 0
    /\ agent = "none"
    /\ reads = 0
    /\ asked = <<>>
    /\ cliOut = ""
    /\ ServerIdle

\* nothing of the other programs moves
CliOnly == UNCHANGED <<queryVars, chatVars, mainVars, serverVars>>

\* load_mcp_clients returns a non-empty list of clients, or raises
CliLoad ==
    /\ cliPc = "load"
    /\ \/ /\ mcp_clients' \in 1..MaxClients
          /\ cliPc' = "enter"
          /\ UNCHANGED cliOut
       \/ /\ cliOut' \in {"ValueError", "KeyError", "FileNotFoundError",
                          "JSONDecodeError", "RuntimeError"}
          /\ cliPc' = "raised"
          /\ UNCHANGED mcp_clients
    /\ UNCHANGED <<entered, clients, agent, reads, asked>>
    /\ CliOnly

\* `if not clients`
NoClients(n) == n = 0

\* one pass of `for i, mcp_client in enumerate(mcp_clients)`: the context is
\* entered, or the failure is logged; past the last client, the test of
\* `clients`
CliEnterContext ==
    /\ cliPc = "enter"
    /\ IF entered < mcp_clients
       THEN /\ entered' = entered + 1
            /\ clients' \in {clients, clients + 1}
            /\ UNCHANGED <<cliPc, cliOut>>
       ELSE /\ IF NoClients(clients)
               THEN cliPc' = "raised" /\ cliOut' = "RuntimeError"
               ELSE cliPc' = "agent" /\ UNCHANGED cliOut
            /\ UNCHANGED <<entered, clients>>
    /\ UNCHANGED <<mcp_clients, agent, reads, asked>>
    /\ CliOnly

\* the tools are collected (a client that fails to list them is skipped) and
\* `Agent(...)` is called: the agent exists and the banner is printed, or the
\* constructor raises and the except clause re-raises
CliCreateAgent ==
    /\ cliPc = "agent"
    /\ \/ /\ agent' = "created"
          /\ cliPc' = "input"
          /\ cliOut' = "banner"
       \/ /\ cliPc' = "raised"
          /\ cliOut' = "Exception"
          /\ UNCHANGED agent
    /\ UNCHANGED <<mcp_clients, entered, clients, reads, asked>>
    /\ CliOnly

\* `message.lower() in ['exit', 'quit']`
IsExitOrQuit(message) ==
    Lower(message) \in {<<"e", "x", "i", "t">>, <<"q", "u", "i", "t">>}

\* input() returned a line: exit or quit leaves the loop, a blank line is
\* refused, anything else is passed to the agent as typed
CliInput ==
    /\ cliPc = "input"
    /\ reads < MaxInputs
    /\ reads' = reads + 1
    /\ \E message \in CliMessages :
        IF IsExitOrQuit(message)
        THEN cliPc' = "ended" /\ cliOut' = "bye" /\ UNCHANGED asked
        ELSE IF Strip(message) = <<>>
        THEN cliPc' = "input" /\ cliOut' = "empty input" /\ UNCHANGED asked
        ELSE /\ cliPc' = "agent_call"
             /\ cliOut' = "processing"
             /\ asked' = Append(asked, message)
    /\ UNCHANGED <<mcp_clients, entered, clients, agent>>
    /\ CliOnly

\* input() raised (end of input): the call is outside the try block of the
\* loop; the except clause that encloses the loop logs and re-raises
CliInputRaises ==
    /\ cliPc = "input"
    /\ reads < MaxInputs
    /\ reads' = reads + 1
    /\ cliPc' = "raised"
    /\ cliOut' = "EOFError"
    /\ UNCHANGED <<mcp_clients, entered, clients, agent, asked>>
    /\ CliOnly

\* where the loop stands once `except Exception` has printed the error of
\* the agent
AfterAgentError == "input"

\* `response = agent(message)` returned
CliAgentReturns ==
    /\ cliPc = "agent_call"
    /\ cliPc' = "input"
    /\ cliOut' = "done"
    /\ UNCHANGED <<mcp_clients, entered, clients, agent, reads, asked>>
    /\ CliOnly

\* `response = agent(message)` raised
CliAgentRaises ==
    /\ cliPc = "agent_call"
    /\ cliPc' = AfterAgentError
    /\ cliOut' = "error: agent failed"
    /\ UNCHANGED <<mcp_clients, entered, clients, agent, reads, asked>>
    /\ CliOnly

CliNext ==
    \/ CliLoad
    \/ CliEnterContext
    \/ CliCreateAgent
    \/ CliInput
    \/ CliInputRaises
    \/ CliAgentReturns
    \/ CliAgentRaises

CliSpec == CliInit /\ [][CliNext]_vars

-----------------------------------------------------------------------------
(* connect_to_minecraft of the server tool scripts *)

\* the largest max_retries the function is called with
MaxRetries == 4

\* `max_retries=3`
DefaultMaxRetries == 3

\* `retry_delay=2`
DefaultRetryDelay == 2

\* what Minecraft.create() can raise besides ConnectionRefusedError
CreateErrors == {"timed out", "Connection reset by peer"}

RefusedMsg == "the connection to the Minecraft server was refused"

\* nothing but connect_to_minecraft moves; `stderr` takes the message of the
\* ConnectionError it raises
ConnOnly ==
    UNCHANGED <<queryVars, chatVars, mainVars, cliVars, toolVars,
                scriptPc, argv, exit_code, stdout, setBlocksCalls>>

\* connect_to_minecraft(max_retries, retry_delay) is called on its own
ConnectInit ==
    /\ session = "None"
    /\ pc = "idle"
    /\ query = <<>>
    /\ messages = <<>>
    /\ bedrock_tools = <<>>
    /\ response = NoOutcome
    /\ content = <<>>
    /\ idx = 0
    /\ final_text = <<>>
    /\ turn_count = 0
    /\ ret = NoReturn
    /\ gwCalls = 0
    /\ gwFailures = 0
    /\ gwErrors = <<>>
    /\ toolLog = <<>>
    /\ lastTool = NoOutcome
    /\ listTools = "none"
    /\ available_tools = <<>>
    /\ chat = "off"
    /\ printed = ""
    /\ hadFailure = FALSE
    /\ MainIdle
    /\ CliIdle
    /\ ToolIdle
    /\ ScriptIdle
    /\ max_retries \in 0..MaxRetries
    /\ retry_delay \in {0, DefaultRetryDelay}
    /\ attempt = 0
    /\ connPc = "try"
    /\ connLog = <<>>
    /\ slept = 0

\* variant: `if attempt < max_retries`
AttemptsRemainOffByOne(a, m) == a < m

\* `if attempt < max_retries - 1`
AttemptsRemain(a, m) == a < m - 1

\* Minecraft.create() returned: `return mc`
ConnectAttemptReturns ==
    /\ connPc = "try"
    /\ attempt < max_retries
    /\ connLog' = Append(connLog, "ok")
    /\ connPc' = "returned"
    /\ UNCHANGED <<max_retries, retry_delay, attempt, slept, stderr>>
    /\ ConnOnly

\* Minecraft.create() raised ConnectionRefusedError: time.sleep is entered
\* when attempts remain, ConnectionError is raised otherwise
ConnectAttemptRefused ==
    /\ connPc = "try"
    /\ attempt < max_retries
    /\ connLog' = Append(connLog, "refused")
    /\ IF AttemptsRemain(attempt, max_retries)
       THEN connPc' = "sleep" /\ UNCHANGED stderr
       ELSE connPc' = "raised" /\ stderr' = RefusedMsg
    /\ UNCHANGED <<max_retries, retry_delay, attempt, slept>>
    /\ ConnOnly

\* Minecraft.create() raised another exception: ConnectionError is raised
ConnectAttemptFails ==
    /\ connPc = "try"
    /\ attempt < max_retries
    /\ connLog' = Append(connLog, "failed")
    /\ connPc' = "raised"
    /\ \E e \in CreateErrors :
        stderr' = "an error occurred while connecting to the Minecraft server: " \o e
    /\ UNCHANGED <<max_retries, retry_delay, attempt, slept>>
    /\ ConnOnly

\* time.sleep(retry_delay) returned: the for loop takes the next attempt
ConnectSleepEnds ==
    /\ connPc = "sleep"
    /\ slept' = slept + retry_delay
    /\ attempt' = attempt + 1
    /\ connPc' = "try"
    /\ UNCHANGED <<max_retries, retry_delay, connLog, stderr>>
    /\ ConnOnly

\* range(max_retries) is exhausted: the function ends without return
\* statement and its value is None
ConnectFallsThrough ==
    /\ connPc = "try"
    /\ attempt >= max_retries
    /\ connPc' = "returned_none"
    /\ UNCHANGED <<max_retries, retry_delay, attempt, connLog, slept, stderr>>
    /\ ConnOnly

ConnectNext ==
    \/ ConnectAttemptReturns
    \/ ConnectAttemptRefused
    \/ ConnectAttemptFails
    \/ ConnectSleepEnds
    \/ ConnectFallsThrough

ConnectSpec == ConnectInit /\ [][ConnectNext]_vars

-----------------------------------------------------------------------------
(* main of server/tools/setBlocks.py *)

\* a value as it stands on the command line or in a tool call, with the
\* Python type it has or parses to
TypedInt(n) == [type |-> "int", value |-> n]

StrValue == [type |-> "str", value |-> 0]

BoolValue == [type |-> "bool", value |-> 1]

\* `coord_limit = 30000000`
coord_limit == 30000000

Abs(v) == IF v < 0 THEN 0 - v ELSE v

\* the command lines the script is started with
ScriptArgvs ==
    [x0 : {TypedInt(0), TypedInt(coord_limit + 1)},
     y0 : {TypedInt(0 - 1), TypedInt(0), TypedInt(255), TypedInt(256)},
     z0 : {TypedInt(0), TypedInt(0 - coord_limit - 1)},
     x1 : {TypedInt(coord_limit), StrValue},
     y1 : {TypedInt(0), TypedInt(256)},
     z1 : {TypedInt(0 - coord_limit)},
     blockType : {TypedInt(0 - 1), TypedInt(0), TypedInt(255), TypedInt(256)}]

\* the names in the order validate_args goes through them
CoordNames == <<"x0", "y0", "z0", "x1", "y1", "z1">>

\* `type=int` of argparse accepts the value
ParsesAsInt(v) == v.type = "int"

\* variant: only blockType is validated
ValidateArgsBlockTypeOnly(a) ==
    IF a.blockType.value < 0 \/ a.blockType.value > 255
    THEN "blockType must be an integer from 0 to 255"
    ELSE ""

\* validate_args: the message of the ValueError it raises, "" when it returns
ValidateArgs(a) ==
    IF a.blockType.value < 0 \/ a.blockType.value > 255
    THEN "blockType must be an integer from 0 to 255"
    ELSE IF \E i \in 1..Len(CoordNames) : Abs(a[CoordNames[i]].value) > coord_limit
    THEN LET i == CHOOSE k \in 1..Len(CoordNames) :
                    /\ Abs(a[CoordNames[k]].value) > coord_limit
                    /\ \A j \in 1..(k - 1) : Abs(a[CoordNames[j]].value) <= coord_limit
         IN  CoordNames[i] \o " is out of range"
    ELSE IF a.y0.value < 0 \/ a.y0.value > 255
    THEN "y0 is out of range, it must be from 0 to 255"
    ELSE IF a.y1.value < 0 \/ a.y1.value > 255
    THEN "y1 is out of range, it must be from 0 to 255"
    ELSE ""

\* nothing but the script moves
ScriptOnly == UNCHANGED <<queryVars, chatVars, mainVars, cliVars, toolVars>>

\* the script is started from a command line
ScriptInit ==
    /\ session = "None"
    /\ pc = "idle"
    /\ query = <<>>
    /\ messages = <<>>
    /\ bedrock_tools = <<>>
    /\ response = NoOutcome
    /\ content = <<>>
    /\ idx = 0
    /\ final_text = <<>>
    /\ turn_count = 0
    /\ ret = NoReturn
    /\ gwCalls = 0
    /\ gwFailures = 0
    /\ gwErrors = <<>>
    /\ toolLog = <<>>
    /\ lastTool = NoOutcome
    /\ listTools = "none"
    /\ available_tools = <<>>
    /\ chat = "off"
    /\ printed = ""
    /\ hadFailure = FALSE
    /\ MainIdle
    /\ CliIdle
    /\ ToolIdle
    /\ ConnIdle
    /\ scriptPc = "parse"
    /\ argv \in ScriptArgvs
    /\ exit_code = "none"
    /\ stdout = ""
    /\ stderr = ""
    /\ setBlocksCalls = 0

\* main up to connect_to_minecraft(): parse_args ends the process with code
\* 2 on a value that is no int (SystemExit passes every except clause);
\* validate_args raises ValueError, which main turns into code 1; otherwise
\* connect_to_minecraft is called with its defaults
ScriptParseAndValidate ==
    /\ scriptPc = "parse"
    /\ IF \E k \in DOMAIN argv : ~ParsesAsInt(argv[k])
       THEN /\ scriptPc' = "exit"
            /\ exit_code' = "2"
            /\ stderr' = "usage: invalid int value"
            /\ UNCHANGED connVars
       ELSE IF ValidateArgs(argv) # ""
       THEN /\ scriptPc' = "exit"
            /\ exit_code' = "1"
            /\ stderr' = "error: the value is invalid - " \o ValidateArgs(argv)
            /\ UNCHANGED connVars
       ELSE /\ scriptPc' = "connect"
            /\ connPc' = "try"
            /\ max_retries' = DefaultMaxRetries
            /\ retry_delay' = DefaultRetryDelay
            /\ attempt' = 0
            /\ UNCHANGED <<exit_code, stderr, connLog, slept>>
    /\ UNCHANGED <<argv, stdout, setBlocksCalls>>
    /\ ScriptOnly

\* connect_to_minecraft raised ConnectionError: `except ConnectionError`
ScriptConnectFailed ==
    /\ scriptPc = "connect"
    /\ connPc = "raised"
    /\ scriptPc' = "exit"
    /\ exit_code' = "2"
    /\ stderr' = "connection error: " \o stderr
    /\ UNCHANGED <<argv, stdout, setBlocksCalls>>
    /\ UNCHANGED connVars
    /\ ScriptOnly

\* connect_to_minecraft returned: mc.setBlocks is called; main prints the
\* success line and returns 0, or the call raises
ScriptSetBlocks ==
    /\ scriptPc = "connect"
    /\ connPc = "returned"
    /\ setBlocksCalls' = setBlocksCalls + 1
    /\ scriptPc' = "exit"
    /\ \/ /\ exit_code' = "0"
          /\ stdout' = "the blocks have been placed"
          /\ UNCHANGED stderr
       \/ /\ exit_code' = "2"
          /\ stderr' = "connection error: Broken pipe"
          /\ UNCHANGED stdout
       \/ /\ exit_code' = "4"
          /\ stderr' = "an unexpected error occurred"
          /\ UNCHANGED stdout
    /\ UNCHANGED argv
    /\ UNCHANGED connVars
    /\ ScriptOnly

\* KeyboardInterrupt while connect_to_minecraft is running
ScriptInterrupted ==
    /\ scriptPc = "connect"
    /\ connPc \in {"try", "sleep"}
    /\ scriptPc' = "exit"
    /\ connPc' = "interrupted"
    /\ exit_code' = "130"
    /\ stderr' = "the run was interrupted"
    /\ UNCHANGED <<argv, stdout, setBlocksCalls>>
    /\ UNCHANGED <<max_retries, retry_delay, attempt, connLog, slept>>
    /\ ScriptOnly

ScriptNext ==
    \/ ScriptParseAndValidate
    \/ ConnectAttemptReturns
    \/ ConnectAttemptRefused
    \/ ConnectAttemptFails
    \/ ConnectSleepEnds
    \/ ScriptConnectFailed
    \/ ScriptSetBlocks
    \/ ScriptInterrupted

ScriptSpec == ScriptInit /\ [][ScriptNext]_vars

-----------------------------------------------------------------------------
(* The setBlocks tool of server/minecraft.py *)

\* the parameters the tool is called with
ToolParams ==
    [x0 : {TypedInt(0), StrValue},
     y0 : {TypedInt(0), TypedInt(256)},
     z0 : {TypedInt(0)},
     x1 : {TypedInt(5), BoolValue},
     y1 : {TypedInt(0)},
     z1 : {TypedInt(0)},
     blockType : {TypedInt(0 - 1), TypedInt(0), TypedInt(255), TypedInt(256), StrValue}]

\* the names in the order the tool goes through them
ParamNames == <<"x0", "y0", "z0", "x1", "y1", "z1", "blockType">>

\* variant: the type test left out
IsInstanceIntAlways(v) == TRUE

\* `isinstance(param_value, int)`: bool is a subclass of int
IsInstanceInt(v) == v.type \in {"int", "bool"}

\* the first parameter that is no int, 0 when all are
FirstNonInt(p) ==
    IF \A i \in 1..Len(ParamNames) : IsInstanceInt(p[ParamNames[i]])
    THEN 0
    ELSE CHOOSE i \in 1..Len(ParamNames) :
            /\ ~IsInstanceInt(p[ParamNames[i]])
            /\ \A j \in 1..(i - 1) : IsInstanceInt(p[ParamNames[j]])

\* `return f"Error: {error_msg}"`
ToolError(error_msg) == "Error: " \o error_msg

\* `error_details.get(result.returncode, "Unknown error")`
ErrorDetail(returncode) ==
    CASE returncode = "1" -> "Invalid value provided"
      [] returncode = "2" -> "Connection error to Minecraft server"
      [] returncode = "3" -> "Invalid argument"
      [] returncode = "4" -> "Unexpected error in script execution"
      [] OTHER -> "Unknown error"

\* what subprocess.run can raise before the script runs
SpawnErrors ==
    { "Command not found: uv",
      "Permission denied when executing the command",
      "Exception occurred while executing command: [Errno 12] Cannot allocate memory" }

TimeoutMsg == "Command execution timed out after 30 seconds"

\* nothing outside the server moves
ToolOnly == UNCHANGED <<queryVars, chatVars, mainVars, cliVars>>

\* the tool is called
ToolInit ==
    /\ session = "None"
    /\ pc = "idle"
    /\ query = <<>>
    /\ messages = <<>>
    /\ bedrock_tools = <<>>
    /\ response = NoOutcome
    /\ content = <<>>
    /\ idx = 0
    /\ final_text = <<>>
    /\ turn_count = 0
    /\ ret = NoReturn
    /\ gwCalls = 0
    /\ gwFailures = 0
    /\ gwErrors = <<>>
    /\ toolLog = <<>>
    /\ lastTool = NoOutcome
    /\ listTools = "none"
    /\ available_tools = <<>>
    /\ chat = "off"
    /\ printed = ""
    /\ hadFailure = FALSE
    /\ MainIdle
    /\ CliIdle
    /\ ScriptIdle
    /\ ConnIdle
    /\ toolPc = "call"
    /\ params \in ToolParams
    /\ toolResult = ""
    /\ spawned = 0

\* the tool up to subprocess.run: the two validations and the test of the
\* script path return an error string; subprocess.run raises before the
\* script runs, or starts it with the parameters formatted into its command
\* line
ToolCall ==
    /\ toolPc = "call"
    /\ IF FirstNonInt(params) # 0
       THEN /\ toolResult' = ToolError("Parameter " \o ParamNames[FirstNonInt(params)]
                                 \o " must be an integer, got "
                                 \o params[ParamNames[FirstNonInt(params)]].type)
            /\ toolPc' = "returned"
            /\ UNCHANGED <<spawned, scriptPc, argv>>
       ELSE IF params.blockType.value < 0 \/ params.blockType.value > 255
       THEN /\ toolResult' = ToolError("blockType must be between 0 and 255, got "
                                 \o ToString(params.blockType.value))
            /\ toolPc' = "returned"
            /\ UNCHANGED <<spawned, scriptPc, argv>>
       ELSE \/ /\ toolResult' = ToolError("Script not found: tools/setBlocks.py")
               /\ toolPc' = "returned"
               /\ UNCHANGED <<spawned, scriptPc, argv>>
            \/ /\ \E e \in SpawnErrors : toolResult' = ToolError(e)
               /\ toolPc' = "returned"
               /\ UNCHANGED <<spawned, scriptPc, argv>>
            \/ /\ toolPc' = "run"
               /\ spawned' = spawned + 1
               /\ scriptPc' = "parse"
               /\ argv' = params
               /\ UNCHANGED toolResult
    /\ UNCHANGED <<params, exit_code, stdout, stderr, setBlocksCalls>>
    /\ UNCHANGED connVars
    /\ ToolOnly

\* the script has not ended after 30 seconds: subprocess.run kills it and
\* raises TimeoutExpired
ToolTimeout ==
    /\ toolPc = "run"
    /\ scriptPc # "exit"
    /\ scriptPc' = "killed"
    /\ toolResult' = ToolError(TimeoutMsg)
    /\ toolPc' = "returned"
    /\ UNCHANGED <<params, spawned, argv, exit_code, stdout, stderr, setBlocksCalls>>
    /\ UNCHANGED connVars
    /\ ToolOnly

\* subprocess.run returned: stdout for return code 0, an error string
\* otherwise
ToolSubprocessEnds ==
    /\ toolPc = "run"
    /\ scriptPc = "exit"
    /\ toolResult' = IF exit_code = "0"
                     THEN stdout
                     ELSE ToolError(ErrorDetail(exit_code) \o " - " \o stderr)
    /\ toolPc' = "returned"
    /\ UNCHANGED <<params, spawned>>
    /\ UNCHANGED scriptVars
    /\ UNCHANGED connVars
    /\ ToolOnly

ToolNext ==
    \/ ToolCall
    \/ ScriptParseAndValidate
    \/ ConnectAttemptReturns
    \/ ConnectAttemptRefused
    \/ ConnectAttemptFails
    \/ ConnectSleepEnds
    \/ ScriptConnectFailed
    \/ ScriptSetBlocks
    \/ ScriptInterrupted
    \/ ToolTimeout
    \/ ToolSubprocessEnds

ToolSpec == ToolInit /\ [][ToolNext]_vars

-----------------------------------------------------------------------------
(* Claims *)

ToolUseIdOf(m) == m.content[1].toolUse.toolUseId

ToolResultIdOf(m) == m.content[1].toolResult.toolUseId

\* the tool results that follow message i of history h and carry its toolUseId
ResultsFor(h, i) ==
    { j \in (i + 1)..Len(h) :
        IsToolResultMsg(h[j]) /\ ToolResultIdOf(h[j]) = ToolUseIdOf(h[i]) }

\* the query is inside a Gateway call
InGatewayCall == pc \in {"gateway", "followup"}

\* C1: whenever the loop calls the Gateway, every tool-request message of the
\* history is followed by exactly one tool-result message with its toolUseId.
C1_PairedAtGatewayCall ==
    InGatewayCall =>
        \A i \in 1..Len(messages) :
            IsToolUseMsg(messages[i]) => Cardinality(ResultsFor(messages, i)) = 1

\* a tool failure: the latest call_tool raised
ToolRaised(out) == "raised" \in DOMAIN out /\ out.raised

\* C2: when call_tool raises, the dispatch appends the tool request and one
\* tool result for its toolUseId, the transcript receives the fragment
\* '[Error calling tool <name>: ...]', and the loop goes on to the follow-up
\* Gateway call: the query is not ended by the failure.
C2_ToolFailureContinues ==
    [][(pc = "call_tool" /\ pc' # "call_tool" /\ ToolRaised(lastTool')) =>
        LET tool_info == content[idx].toolUse IN
        /\ pc' = "followup"
        /\ ret' = NoReturn
        /\ Len(messages') = Len(messages) + 2
        /\ messages'[Len(messages) + 1] =
              MessageToolRequest(tool_info.toolUseId, tool_info.name, tool_info.input)
        /\ IsToolResultMsg(messages'[Len(messages) + 2])
        /\ ToolResultIdOf(messages'[Len(messages) + 2]) = tool_info.toolUseId
        /\ final_text' = Append(final_text,
              "[Error calling tool " \o tool_info.name \o ": " \o lastTool'.msg \o "]")
      ]_vars

\* the toolUse blocks of a content list
ToolUseCount(cont) == Cardinality({ i \in 1..Len(cont) : "toolUse" \in DOMAIN cont[i] })

\* the most toolUse blocks a Gateway response carries
MaxToolUseBlocks ==
    CHOOSE n \in 0..8 :
        /\ \E r \in GatewayResponses(1) :
              HasContent(r) /\ ToolUseCount(r.output.message.content) = n
        /\ \A r \in GatewayResponses(1) :
              HasContent(r) => ToolUseCount(r.output.message.content) <= n

\* every turn dispatched one toolUse block, taken from the answer to the
\* Gateway call before it
OneToolUsePerTurn ==
    /\ Len(toolLog) = turn_count
    /\ \A i \in 1..Len(toolLog) : toolLog[i][1] = i

LimitStop == pc = "done" /\ turn_count >= MAX_TURNS

\* C3 as stated: the Gateway calls of a query never exceed MAX_TURNS, and a
\* Gateway that answers every call with one toolUse block is called exactly
\* MAX_TURNS times.
C3_GatewayCallsWithinMaxTurns ==
    /\ gwCalls <= MAX_TURNS
    /\ (LimitStop /\ OneToolUsePerTurn) => gwCalls = MAX_TURNS

\* C3 amended: the passes of the response loop never exceed MAX_TURNS; the
\* Gateway is called once at the start and once after every dispatched
\* toolUse block, so at most 1 + MAX_TURNS * (toolUse blocks per response)
\* times, and exactly MAX_TURNS + 1 times when every turn dispatches one
\* toolUse block.
C3_TurnsWithinMaxTurns ==
    /\ turn_count <= MAX_TURNS
    /\ gwCalls <= 1 + Len(toolLog)
    /\ gwCalls <= 1 + MAX_TURNS * MaxToolUseBlocks
    /\ (LimitStop /\ OneToolUsePerTurn) => gwCalls = MAX_TURNS + 1

C3_Witness == LimitStop /\ OneToolUsePerTurn /\ gwCalls = MAX_TURNS + 1

\* C4: every call of process_query returns: the loop ends on a terminal stop
\* reason, on an error, or after at most MAX_TURNS passes.
C4_QueryReturns ==
    /\ (pc # "idle") ~> (pc = "done" /\ ret # NoReturn)
    /\ [](turn_count <= MAX_TURNS)

C4_Witness ==
    /\ pc = "done"
    /\ ret # NoReturn
    /\ turn_count = MAX_TURNS
    /\ gwFailures > 0
    /\ toolLog # <<>>

\* C5: when the loop stops because the turn counter reached MAX_TURNS, the
\* limit-reached marker is the last fragment of the returned transcript,
\* whatever the stop reason of the latest Gateway response.
C5_LimitMarkerLast ==
    turn_count >= MAX_TURNS =>
        /\ pc = "done"
        /\ Last(final_text) = MaxTurnsMarker
        /\ ret = Join(final_text)

C5_Witness ==
    /\ LimitStop
    /\ "stopReason" \in DOMAIN response
    /\ response.stopReason = "end_turn"
    /\ Last(final_text) = MaxTurnsMarker

\* C6: a failed Gateway call ends the loop of the query: after it no Gateway
\* call and no Tool Host call is made and the history is not changed.
C6_GatewayFailureAborts ==
    [][gwFailures > 0 =>
          (gwCalls' = gwCalls /\ toolLog' = toolLog /\ messages' = messages)]_vars

\* a query that is empty or holds whitespace only
AllWhitespace(q) == \A i \in 1..Len(q) : q[i] = " "

Called == pc # "idle"

\* C7: a blank query is answered at once with the diagnostic, with no
\* list_tools, call_tool or Gateway call, connected or not.
C7_BlankQueryNoCalls ==
    (Called /\ AllWhitespace(query)) =>
        /\ pc = "done"
        /\ ret = EmptyQueryMsg
        /\ gwCalls = 0
        /\ toolLog = <<>>
        /\ listTools = "no call"

C7_Witness ==
    /\ Called
    /\ query # <<>>
    /\ AllWhitespace(query)
    /\ session = "initialized"
    /\ ret = EmptyQueryMsg

\* C8: a non-blank query without a session fails with the not-connected
\* message, with no list_tools, call_tool or Gateway call and no history.
C8_NotConnectedNoCalls ==
    (Called /\ ~AllWhitespace(query) /\ session = "None") =>
        /\ pc = "done"
        /\ ret = NotConnectedMsg
        /\ listTools = "no call"
        /\ gwCalls = 0
        /\ toolLog = <<>>
        /\ messages = <<>>

C8_Witness ==
    Called /\ ~AllWhitespace(query) /\ session = "None" /\ ret = NotConnectedMsg

\* list_tools reported no tools to the query
ZeroTools == listTools = "returned" /\ available_tools = <<>>

\* C9 as stated: with zero tools the Gateway is still called, and an end_turn
\* answer 'Hello' ends the returned transcript.
C9_ZeroToolsStillCallsGateway ==
    ZeroTools =>
        /\ gwCalls >= 1
        /\ (pc = "done" /\ response = GatewayResponse("end_turn", <<TextBlock("Hello")>>))
              => (final_text # <<>> /\ Last(final_text) = "Hello"
                  /\ ret = Join(final_text))

\* C9 amended: with zero tools process_query returns the no-tools warning at
\* once; the Gateway is not called and no response is inspected.
C9_ZeroToolsReturnsWarning ==
    ZeroTools =>
        /\ pc = "done"
        /\ ret = NoToolsMsg
        /\ gwCalls = 0
        /\ response = EmptyDict
        /\ final_text = <<>>

C9_Witness == ZeroTools /\ pc = "done" /\ gwCalls = 0 /\ ~AllWhitespace(query)

\* C10: a non-blank query on a connected session with zero tools completes
\* without a call_tool and returns a non-empty string.
C10_ZeroToolsNoToolCall ==
    (ZeroTools /\ ~AllWhitespace(query) /\ session = "initialized") =>
        /\ toolLog = <<>>
        /\ lastTool = NoOutcome
        /\ pc = "done"
        /\ ret \notin {"", NoReturn}

C10_Witness ==
    /\ ZeroTools
    /\ session = "initialized"
    /\ Text(Strip(query)) = "quit"
    /\ pc = "done"
    /\ toolLog = <<>>

\* the content list of a response, empty when the response carries none
ContentOf(r) == IF HasContent(r) THEN r.output.message.content ELSE <<>>

\* the positions of the text blocks of a content list
TextPositions(cont) == { i \in 1..Len(cont) : "text" \in DOMAIN cont[i] }

\* the loop is about to inspect `response`, whose stop reason is in `reasons`
Inspecting(reasons) ==
    /\ pc = "while"
    /\ "stopReason" \in DOMAIN response
    /\ response.stopReason \in reasons

\* C11: on an end_turn response the loop ends and emits the text of the first
\* text block of the content, wherever it stands; a malformed-response
\* diagnostic is emitted only when the content has no text block.
C11_EndTurnFirstTextBlock ==
    [][(Inspecting({"end_turn"}) /\ pc' # "while") =>
        LET cont == ContentOf(response)
            first == CHOOSE i \in TextPositions(cont) :
                        \A j \in TextPositions(cont) : i <= j
        IN  /\ pc' = "done"
            /\ IF TextPositions(cont) # {}
               THEN final_text' = Append(final_text, cont[first].text)
               ELSE \E diag \in {"[Response contains no text]",
                                 "[Error: Invalid response format]"} :
                        final_text' = Append(final_text, diag)
      ]_vars

\* the stop reasons the loop knows by name
KnownStopReasons ==
    {"tool_use", "max_tokens", "stop_sequence", "content_filtered", "end_turn"}

\* `response` is the latest response received from the Gateway in a query
\* that has not ended, and its stop reason is in `reasons`
Received(reasons) ==
    /\ pc \in {"while", "for", "call_tool", "followup"}
    /\ "stopReason" \in DOMAIN response
    /\ response.stopReason \in reasons

\* C12: a response whose stop reason x is not a known one is terminal: once
\* it is received no Gateway call and no tool call follows, the history is
\* left alone, and the loop stops on it with the diagnostic carrying x
\* verbatim as the last fragment of the returned transcript.
C12_UnknownStopReasonTerminal ==
    [][(/\ Received({response.stopReason})
        /\ response.stopReason \notin KnownStopReasons) =>
        /\ gwCalls' = gwCalls /\ gwFailures' = gwFailures
        /\ toolLog' = toolLog
        /\ pc = "while" => pc' = "done"
        /\ pc' = "done" =>
            /\ final_text' = Append(final_text,
                   "[Unknown stop reason: " \o response.stopReason \o "]")
            /\ ret' = Join(final_text')
      ]_vars

\* C13: a response with stop reason max_tokens, stop_sequence or
\* content_filtered is terminal: once it is received no tool call and no
\* Gateway call follows, nothing is appended to the history, and the loop
\* stops on it with its descriptive marker as the last fragment.
C13_DescriptiveMarkerTerminal ==
    [][Received({"max_tokens", "stop_sequence", "content_filtered"}) =>
        /\ gwCalls' = gwCalls /\ gwFailures' = gwFailures
        /\ toolLog' = toolLog /\ messages' = messages
        /\ pc = "while" => pc' = "done"
        /\ pc' = "done" =>
            /\ final_text' = Append(final_text,
                   CASE response.stopReason = "max_tokens" ->
                            "[Max tokens reached, ending conversation.]"
                     [] response.stopReason = "stop_sequence" ->
                            "[Stop sequence reached, ending conversation.]"
                     [] response.stopReason = "content_filtered" ->
                            "[Content filtered, ending conversation.]")
            /\ ret' = Join(final_text')
      ]_vars

\* call_tool returned without raising, with no result or with empty content
ReturnedEmpty(out) ==
    /\ "raised" \in DOMAIN out
    /\ ~out.raised
    /\ (out.isNone \/ out.content = <<>>)

\* C14: when call_tool returns no result or empty content, the dispatch
\* appends exactly the tool-request and one tool-result with an explanatory
\* text for that toolUseId, no exception escapes, and the loop goes on to
\* re-invoke the Gateway.
C14_EmptyResultSoftFailure ==
    [][(pc = "call_tool" /\ pc' # "call_tool" /\ ReturnedEmpty(lastTool')) =>
        LET tool_info == content[idx].toolUse
        IN  /\ Len(messages') = Len(messages) + 2
            /\ SubSeq(messages', 1, Len(messages)) = messages
            /\ IsToolUseMsg(messages'[Len(messages) + 1])
            /\ ToolUseIdOf(messages'[Len(messages) + 1]) = tool_info.toolUseId
            /\ IsToolResultMsg(messages'[Len(messages) + 2])
            /\ ToolResultIdOf(messages'[Len(messages) + 2]) = tool_info.toolUseId
            /\ pc' = "followup"
            /\ gwCalls' = gwCalls + 1
            /\ Last(final_text') = "[Tool " \o tool_info.name \o " returned empty response]"
      ]_vars

\* control is inside the response loop of _process_response
InLoop == pc \in {"while", "for", "call_tool", "followup"}

\* C15 as stated: the string returned by a query that emitted fragments is
\* the join of all of them, on every path.
C15_ReturnIsJoinOfFragments ==
    (pc = "done" /\ final_text # <<>>) => ret = Join(final_text)

\* the step about to be taken raises inside the loop: the response lacks
\* stopReason, the toolUse block lacks a key, or the tool result cannot be
\* turned into a tool-result message
LoopStepRaises ==
    \/ pc = "while" /\ "stopReason" \notin DOMAIN response
    \/ /\ pc = "for" /\ idx <= Len(content)
       /\ "toolUse" \in DOMAIN content[idx]
       /\ ~({"name", "input", "toolUseId"} \subseteq DOMAIN content[idx].toolUse)
    \/ /\ pc = "call_tool" /\ pc' # "call_tool"
       /\ \/ lastTool'.raised
          \/ ReturnedEmpty(lastTool')
          \/ "text" \notin DOMAIN lastTool'.content[1]

\* the reports of the except clauses of the loop
LoopErrorReports ==
    { "ERROR: a problem occurred while processing the response: " \o k :
        k \in {"'stopReason'", "'name'", "'input'", "'toolUseId'"} }
    \cup
    { "ERROR: an unexpected error occurred while processing the response: " \o m :
        m \in {"'dict' object has no attribute 'text'",
               "'ImageContent' object has no attribute 'text'"} }

\* C15 (amended): a query that leaves the loop by a terminal response, a
\* malformed tool_use response or the turn limit returns the join of all
\* fragments emitted, in order; a step that raises inside the loop ends the
\* query with the error report alone, and the fragments emitted so far are
\* not part of the returned string.
C15_ReturnIsJoinOrErrorReport ==
    [][InLoop =>
        IF LoopStepRaises
        THEN /\ pc' = "done"
             /\ final_text' = final_text
             /\ ret' \in LoopErrorReports
        ELSE pc' = "done" =>
             /\ \E n \in 1..2 :
                    SubSeq(final_text', 1, Len(final_text') - n) = final_text
             /\ ret' = Join(final_text')
      ]_vars

\* a query ended by an exception after two fragments had been emitted
C15_Witness ==
    /\ pc = "done"
    /\ Len(final_text) >= 2
    /\ ret = "ERROR: an unexpected error occurred while processing the response: "
                \o "'dict' object has no attribute 'text'"

\* C17 as stated: no two of the five Gateway failure modes are raised as the
\* same error kind.
C17_DistinctErrorKinds ==
    \A i, j \in DOMAIN gwErrors :
        gwErrors[i].mode # gwErrors[j].mode =>
            gwErrors[i].exc.type # gwErrors[j].exc.type

\* the exception class raised for each failure mode
ErrorKindOf(mode) ==
    CASE mode = "ValidationException" -> "ValueError"
      [] mode = "AccessDeniedException" -> "PermissionError"
      [] OTHER -> "RuntimeError"

\* C17 (amended): the five failure modes are raised as three error kinds
\* (ValueError for a validation error, PermissionError for access denied,
\* RuntimeError for model-unavailable, rate-limited and unclassified); the
\* messages of different modes differ, and the message is what the caller
\* sees: the report of a failed first call ends with it, and a failed
\* follow-up call leaves it in a fragment of the transcript.
C17_ThreeKindsDistinctMessages ==
    /\ [](\A i \in DOMAIN gwErrors :
            gwErrors[i].exc.type = ErrorKindOf(gwErrors[i].mode))
    /\ [](\A i, j \in DOMAIN gwErrors :
            gwErrors[i].mode # gwErrors[j].mode =>
                gwErrors[i].exc.msg # gwErrors[j].exc.msg)
    /\ [][gwFailures' # gwFailures =>
            LET msg == Last(gwErrors').exc.msg
            IN  IF pc = "gateway"
                THEN /\ pc' = "done"
                     /\ ret' = "ERROR: an error occurred while processing the query: "
                                  \o msg
                ELSE /\ \E k \in DOMAIN final_text' :
                            final_text'[k] =
                                "[Error during follow-up request: " \o msg \o "]"
                     /\ pc' = "done" => ret' = Join(final_text')
         ]_vars

\* two failures of different modes in one query, raised as the same kind
C17_Witness ==
    \E i, j \in DOMAIN gwErrors :
        /\ gwErrors[i].mode = "ThrottlingException"
        /\ gwErrors[j].mode = "ModelNotReadyException"
        /\ gwErrors[i].exc.type = gwErrors[j].exc.type
        /\ pc = "done"

\* the query is the text 'quit' or the text 'exit'
QuitLike == query \in {<<"q", "u", "i", "t">>, <<"e", "x", "i", "t">>}

\* C19: process_query does not special-case the text 'quit' or 'exit': on a
\* connected session such a query is put in the history as the user message
\* and list_tools is called, as for any non-blank query, and the query never
\* ends with the blank-query or not-connected message.
C19_QuitIsOrdinaryQuery ==
    (Called /\ QuitLike /\ session # "None") =>
        /\ listTools # "no call"
        /\ messages # <<>>
        /\ messages[1] = [role |-> "user", content |-> <<[text |-> Text(query)]>>]
        /\ ret \notin {EmptyQueryMsg, NotConnectedMsg}

\* the query 'quit' went through list_tools, the Gateway call, a tool
\* dispatch and the end_turn branch
C19_Witness ==
    /\ query = <<"q", "u", "i", "t">>
    /\ pc = "done"
    /\ gwCalls = 2
    /\ Len(toolLog) = 1
    /\ "stopReason" \in DOMAIN response
    /\ response.stopReason = "end_turn"
    /\ Last(final_text) = "Hello"
    /\ ret = Join(final_text)

\* the toolUseIds of the toolUse blocks among the first n blocks of cont
RECURSIVE ToolUseIdsUpTo(_, _)
ToolUseIdsUpTo(cont, n) ==
    IF n = 0 THEN <<>>
    ELSE IF "toolUse" \in DOMAIN cont[n]
         THEN Append(ToolUseIdsUpTo(cont, n - 1), cont[n].toolUse.toolUseId)
         ELSE ToolUseIdsUpTo(cont, n - 1)

\* s is the tail of t
IsSuffix(s, t) ==
    /\ Len(s) <= Len(t)
    /\ SubSeq(t, Len(t) - Len(s) + 1, Len(t)) = s

\* C20: tool dispatch is sequential and in arrival order. While a tool call
\* is outstanding it is the only one and it is the call for block idx; the
\* toolUse blocks of the response up to that block were dispatched in the
\* order they stand in the response; and every earlier dispatch was followed
\* by its own Gateway call before this one (one initial call plus one per
\* earlier block).
C20_SequentialDispatch ==
    /\ Len(toolLog) <= gwCalls
    /\ pc = "call_tool" =>
        /\ "toolUse" \in DOMAIN content[idx]
        /\ Last(toolLog) = content[idx].toolUse.toolUseId
        /\ IsSuffix(ToolUseIdsUpTo(content, idx), toolLog)
        /\ gwCalls = Len(toolLog)
    /\ pc = "followup" => gwCalls = Len(toolLog) + 1

\* the second toolUse block of one response is outstanding, after the first
\* block was dispatched and followed by a Gateway call
C20_Witness ==
    /\ pc = "call_tool"
    /\ idx = 2
    /\ ToolUseIdsUpTo(content, 2) = <<<<1, 1>>, <<1, 2>>>>
    /\ toolLog = <<<<1, 1>>, <<1, 2>>>>
    /\ gwCalls = 2

\* C18: a failure inside one query ends only that query. When a query that
\* met a failure has returned, chat_loop prints a non-empty message for it
\* and is back at the prompt with the same session; the loop ends only at
\* the prompt (on 'quit'), never because a query or the input failed; and
\* every query that has returned is followed by the next prompt.
C18_FailureEndsOnlyTheQuery ==
    /\ [][(chat = "query" /\ pc = "done" /\ QueryFailed) =>
            /\ chat' = "input"
            /\ pc' = "idle"
            /\ printed' = "\n" \o ret
            /\ ret \notin {"", NoReturn}
            /\ session' = session
         ]_vars
    /\ [][chat' = "ended" => (chat \in {"input", "ended"} /\ printed' = "")]_vars
    /\ [](chat \in {"input", "query"} => session = "initialized")
    /\ (chat = "query") ~> (chat = "input")

\* after a query that met a failure, the next query of the same chat_loop
\* is at its own Gateway call
C18_Witness ==
    /\ hadFailure
    /\ chat = "query"
    /\ pc = "gateway"
    /\ session = "initialized"
    /\ gwFailures = 0

\* the Gateway calls of the query that have returned or raised
CompletedGatewayCalls ==
    IF pc \in {"gateway", "followup"} THEN gwCalls - 1 ELSE gwCalls

\* C21 as stated: at every point of a query turn_count equals the number of
\* Gateway calls completed so far.
C21_TurnCountEqualsGatewayCalls ==
    turn_count = CompletedGatewayCalls

\* the step about to be taken finishes a pass of the while loop over a
\* tool_use response: the for loop is exhausted, or a follow-up call raises
PassEnds ==
    \/ pc = "for" /\ idx > Len(content)
    \/ pc = "followup" /\ gwFailures' # gwFailures

\* C21 (amended): turn_count never decreases and goes up by exactly one
\* when, and only when, a pass of the while loop over a tool_use response
\* ends; it is not tied to the Gateway calls, whose number in the loop is one
\* plus the number of toolUse blocks dispatched and answered.
C21_TurnCountCountsPasses ==
    /\ [][InLoop =>
            IF PassEnds THEN turn_count' = turn_count + 1
                        ELSE turn_count' = turn_count]_vars
    /\ [][turn_count' >= turn_count]_vars
    /\ [](InLoop => gwCalls = 1 + Len(toolLog) - (IF pc = "call_tool" THEN 1 ELSE 0))

\* two passes were counted although the Gateway was called once (a tool_use
\* response without toolUse block)
C21_Witness ==
    /\ turn_count = 2
    /\ gwCalls = 1
    /\ gwFailures = 0
    /\ pc = "done"

\* C22: every tool_use response is processed exactly once. When a pass over
\* such a response ends and the loop goes back to inspect `response`, the
\* pass ended by exhausting the blocks (not by a failed follow-up call) and
\* it dispatched at least one toolUse block, so that a Gateway call has
\* replaced the response in between; otherwise the same response, with its
\* text blocks, is processed again.
C22_ToolUseResponseProcessedOnce ==
    [][(InLoop /\ PassEnds /\ pc' = "while") =>
        /\ pc = "for"
        /\ ToolUseIdsUpTo(content, Len(content)) # <<>>
        /\ content # ContentOf(response)
      ]_vars

\* the tool-request messages of history h
ToolRequestPositions(h) == { i \in DOMAIN h : IsToolUseMsg(h[i]) }

\* C23 as stated: while call_tool runs, the tool-request mirroring the
\* dispatched toolUse block is already the last message of the history.
C23_RequestBeforeCall ==
    pc = "call_tool" =>
        /\ IsToolUseMsg(Last(messages))
        /\ ToolUseIdOf(Last(messages)) = content[idx].toolUse.toolUseId

\* C23 (amended): call_tool is awaited first. The dispatch leaves the
\* history as it is, so that while the tool runs the history holds one
\* tool-request per earlier dispatch and none for the running one; the
\* tool-request is the first message appended once call_tool has returned
\* or raised.
C23_RequestAfterCall ==
    /\ [][(pc = "for" /\ pc' = "call_tool") => messages' = messages]_vars
    /\ [](pc = "call_tool" =>
            Cardinality(ToolRequestPositions(messages)) = Len(toolLog) - 1)
    /\ [][(pc = "call_tool" /\ pc' # "call_tool") =>
            /\ Len(messages') > Len(messages)
            /\ SubSeq(messages', 1, Len(messages)) = messages
            /\ messages'[Len(messages) + 1] =
                 [role |-> "assistant",
                  content |-> <<[toolUse |-> content[idx].toolUse]>>]
         ]_vars

\* call_tool is running for the first toolUse block and the history holds
\* the user message only
C23_Witness ==
    /\ pc = "call_tool"
    /\ Len(toolLog) = 1
    /\ Len(messages) = 1
    /\ ToolRequestPositions(messages) = {}

\* the query is suspended in a collaborator call, or has ended
SuspendedOrEnded == pc \in {"list_tools", "gateway", "call_tool", "followup", "done"}

\* C24: the tool-request and its tool-result are appended as a unit. In no
\* state in which the query is suspended in a Gateway or Tool Host call, or
\* has ended, does the history hold a tool-request that no later
\* tool-result with its toolUseId follows.
C24_RequestResultAtomic ==
    SuspendedOrEnded =>
        \A i \in ToolRequestPositions(messages) : ResultsFor(messages, i) # {}

\* C25: in every history each tool-result message has role 'user' and
\* carries the toolUseId of a tool-request message with role 'assistant'
\* that stands earlier in the history, and the first message of a query's
\* history is the user message holding the query text.
C25_HistoryWellFormed ==
    /\ (Called /\ messages # <<>>) =>
        messages[1] = [role |-> "user", content |-> <<[text |-> Text(query)]>>]
    /\ \A j \in DOMAIN messages :
        IsToolResultMsg(messages[j]) =>
            /\ messages[j].role = "user"
            /\ \E i \in 1..(j - 1) :
                /\ IsToolUseMsg(messages[i])
                /\ messages[i].role = "assistant"
                /\ ToolUseIdOf(messages[i]) = ToolResultIdOf(messages[j])

\* a history with the results of two dispatched toolUse blocks
C25_Witness ==
    /\ Len(messages) >= 5
    /\ IsToolResultMsg(messages[3])
    /\ IsToolResultMsg(messages[5])
    /\ ToolResultIdOf(messages[3]) # ToolResultIdOf(messages[5])

\* s is an initial part of t
IsPrefix(s, t) == Len(s) <= Len(t) /\ SubSeq(t, 1, Len(s)) = s

\* the plain user messages (query texts) of history h
UserTextPositions(h) ==
    { i \in DOMAIN h : h[i].role = "user" /\ "text" \in DOMAIN h[i].content[1] }

\* C26: the history is append-only and owned by one query. A call of
\* process_query that goes on to list_tools starts from a history holding
\* exactly the user message with its query, whatever an earlier query of the
\* same chat_loop left behind; until the call has returned every step
\* extends the history; and the history sent to the Gateway holds one user
\* query message, the first one, carrying the query of this call.
C26_FreshAppendOnlyHistory ==
    /\ [][(pc = "idle" /\ pc' = "list_tools") =>
            messages' = <<[role |-> "user",
                           content |-> <<[text |-> Text(query')]>>]>>]_vars
    /\ [][pc # "idle" => IsPrefix(messages, messages')]_vars
    /\ [](InGatewayCall =>
            /\ UserTextPositions(messages) = {1}
            /\ messages[1].content[1].text = Text(query))

\* a later query of the chat_loop is at its first Gateway call with a
\* history of one message, after an earlier query that had built its own
C26_Witness ==
    /\ chat = "query"
    /\ hadFailure
    /\ pc = "gateway"
    /\ Len(messages) = 1

\* every descriptor of the list carries input_schema.properties and .required
WellFormedDescriptors ==
    \A i \in DOMAIN available_tools :
        {"properties", "required"} \subseteq DOMAIN available_tools[i].input_schema

\* C27: to_bedrock_format is a pure, order-preserving mapping. For a list of
\* well-formed descriptors the call returns a list of the same length whose
\* entry i holds exactly descriptor i's name, description, properties and
\* required under toolSpec; the descriptor list is not modified by the call;
\* and translating it a second time gives the same list.
C27_ToBedrockFormatPreservesOrder ==
    /\ [](WellFormedDescriptors /\ pc \in {"formatted", "formatted_twice"} =>
            /\ Len(bedrock_tools) = Len(available_tools)
            /\ \A i \in DOMAIN available_tools :
                /\ DOMAIN bedrock_tools[i] = {"toolSpec"}
                /\ DOMAIN bedrock_tools[i].toolSpec =
                        {"name", "description", "inputSchema"}
                /\ bedrock_tools[i].toolSpec.name = available_tools[i].name
                /\ bedrock_tools[i].toolSpec.description = available_tools[i].description
                /\ bedrock_tools[i].toolSpec.inputSchema =
                     [json |->
                        [type |-> "object",
                         properties |-> available_tools[i].input_schema.properties,
                         required |-> available_tools[i].input_schema.required]])
    /\ [][(pc \in {"format", "formatted"}) =>
            /\ available_tools' = available_tools
            /\ WellFormedDescriptors => pc' \in {"formatted", "formatted_twice"}
            /\ pc = "formatted" => bedrock_tools' = bedrock_tools
         ]_vars

\* three well-formed descriptors, two of them equal, were translated twice
C27_Witness ==
    /\ pc = "formatted_twice"
    /\ Len(bedrock_tools) = 3
    /\ bedrock_tools[1].toolSpec.name = "setBlock"
    /\ bedrock_tools[2].toolSpec.name = "capture"
    /\ bedrock_tools[3].toolSpec.name = "setBlock"
    /\ bedrock_tools[1].toolSpec.inputSchema.json.required = "[x,y,z,blockType]"

\* C28: a malformed tool descriptor is not validated locally. When
\* list_tools reports a non-empty list holding a descriptor without
\* 'required' or without 'properties', the translation still yields one
\* schema per descriptor and the Gateway is called with them.
C28_MalformedDescriptorReachesGateway ==
    [][(/\ pc = "list_tools"
        /\ listTools' = "returned"
        /\ available_tools' # <<>>
        /\ \E i \in DOMAIN available_tools' :
             ~({"properties", "required"} \subseteq
                    DOMAIN available_tools'[i].input_schema)) =>
        /\ pc' = "gateway"
        /\ gwCalls' = gwCalls + 1
        /\ Len(bedrock_tools') = Len(available_tools')
      ]_vars

\* C29: within one query each toolUse block received from the Gateway
\* causes at most one call_tool: no toolUseId is handed to the Tool Host
\* twice.
C29_NoToolUseIdDispatchedTwice ==
    \A i, j \in DOMAIN toolLog : toolLog[i] = toolLog[j] => i = j

\* `response` is an end_turn response whose first content block is text
EndTurnWithLeadingText ==
    /\ Received({"end_turn"})
    /\ ContentOf(response) # <<>>
    /\ "text" \in DOMAIN ContentOf(response)[1]

\* C30: every response received is inspected, and an end_turn response with
\* a leading text block ends the query with that text: once it has been
\* received no tool is dispatched and no Gateway call is made any more, the
\* loop head ends the query on it, and when the query ends the text is the
\* last fragment of the returned transcript.
C30_EndTurnAnswerAlwaysReturned ==
    [][EndTurnWithLeadingText =>
        /\ toolLog' = toolLog
        /\ gwCalls' = gwCalls
        /\ pc = "while" => pc' = "done"
        /\ pc' = "done" =>
            /\ final_text' = Append(final_text, ContentOf(response)[1].text)
            /\ ret' = Join(final_text')
      ]_vars

\* the query that has returned did not end on a well-formed terminal
\* response: it was refused, a collaborator raised or answered something
\* malformed, a tool result could not be used, or the turn limit stopped it
FailurePath ==
    \/ AllWhitespace(query)
    \/ session = "None"
    \/ listTools = "raised"
    \/ ZeroTools
    \/ ~WellFormedDescriptors
    \/ gwFailures > 0
    \/ "stopReason" \notin DOMAIN response
    \/ ~HasContent(response)
    \/ "raised" \in DOMAIN lastTool /\ (lastTool.raised \/ ReturnedEmpty(lastTool))
    \/ turn_count >= MAX_TURNS
    \/ ret \in LoopErrorReports

\* C31: process_query never raises to its caller. Every call that has ended
\* has returned a string, whatever the query, the session, the Gateway and
\* the Tool Host did, and on every failure path that string is not empty.
C31_AlwaysReturnsString ==
    /\ pc = "done" => ret # NoReturn
    /\ (pc = "done" /\ FailurePath) => ret # ""
    /\ pc \in {"idle", "list_tools", "gateway", "while", "for", "call_tool",
               "followup", "done"}

\* a follow-up response without stopReason raised KeyError inside the loop
\* and the query returned the report
C31_Witness ==
    /\ pc = "done"
    /\ gwCalls = 2
    /\ "stopReason" \notin DOMAIN response
    /\ ret = "ERROR: a problem occurred while processing the response: 'stopReason'"

Distinct(log) == \A i, j \in 1..Len(log) : log[i] = log[j] => i = j

Members(log) == { log[i] : i \in 1..Len(log) }

\* C32: main handles the servers one after another: chat_loop is entered only
\* for a server whose connect_to_server returned (session initialized), a
\* failed connection is reported and not retried, cleanup is awaited once for
\* every server whose client was made, and the next server is connected only
\* after the cleanup of the one before
C32_MainOneServerAtATime ==
    /\ connectLog \in {[i \in 1..n |-> i] : n \in 0..MaxServers}
    /\ Distinct(connectLog) /\ Distinct(cleanupLog) /\ Distinct(chatLog)
    /\ Members(chatLog) \subseteq Members(connectLog) \ Members(reportLog)
    /\ chat \notin {"off"} => /\ mainPc \in {"chat", "finally", "finally_raising",
                                            "for", "done", "interrupted", "exit1"}
                              /\ session = "initialized"
                              /\ server \in Members(chatLog)
    /\ mainPc = "connected" => server \notin Members(reportLog)
    /\ mainPc \in {"finally", "finally_raising"} =>
          /\ server \in Members(connectLog)
          /\ server \notin Members(cleanupLog)
          /\ server \in Members(chatLog) \/ server \in Members(reportLog)
    /\ mainPc \in {"for", "done", "interrupted", "exit1"} =>
          cleanupLog = connectLog
    /\ mainPc \in {"connect"} =>
          /\ cleanupLog = connectLog
          /\ Len(connectLog) = server - 1
    /\ mainPc \in {"connected", "chat"} =>
          /\ Len(connectLog) = server
          /\ cleanupLog = SubSeq(connectLog, 1, server - 1)

C32_Witness ==
    /\ mainPc = "connected"
    /\ server = 2
    /\ reportLog = <<1>>
    /\ cleanupLog = <<1>>
    /\ connectLog = <<1, 2>>

\* the word quit in any mix of cases
SpelledQuit(q) ==
    /\ Len(q) = 4
    /\ q[1] \in {"q", "Q"} /\ q[2] \in {"u", "U"}
    /\ q[3] \in {"i", "I"} /\ q[4] \in {"t", "T"}

\* chat_loop is running
InChatLoop == chat \in {"input", "query"}

VariantToolFailed(out) ==
    \/ out.raised
    \/ ~out.isNone /\ (out.content = <<>> \/ ~HasTextAttr(out.content[1]))

\* the failed tool call is turned into an error fragment and the follow-up
\* Gateway call is made
VariantErrorReported ==
    (pc = "call_tool" /\ pc' # "call_tool" /\ VariantToolFailed(lastTool')) =>
        /\ pc' = "followup"
        /\ gwCalls' = gwCalls + 1
        /\ Len(final_text') = Len(final_text) + 1
        /\ Last(final_text') \in
             { "[Error calling tool " \o content[idx].toolUse.name \o ": " \o text \o "]" :
                 text \in {"tool failed", "list index out of range",
                           "'ImageContent' object has no attribute 'text'"} }

\* no tool request of the history is without a tool result
VariantPaired ==
    \A i \in 1..Len(messages) :
        IsToolUseMsg(messages[i]) => ResultsFor(messages, i) # {}

\* C34: in the variant a failed tool call yields its error fragment and the
\* Gateway is called again, and at every Gateway call each tool request of
\* the history has its tool result.
C34_VariantErrorKeepsPairing ==
    /\ [][VariantErrorReported]_vars
    /\ [](InGatewayCall => VariantPaired)

\* C35: in the variant a response whose stop reason has no branch ends the
\* query at the loop head, with a fragment naming the stop reason; the loop
\* does not come back to the same response.
C35_VariantUnknownStopReasonEnds ==
    [][(Inspecting({"guardrail_intervened"})) =>
        /\ pc' = "done"
        /\ Last(final_text') = "[Unknown stop reason: " \o response.stopReason \o "]"
        /\ ret' = Join(final_text')
      ]_vars

\* the interactive loop of client.py is running
InCliLoop == cliPc \in {"input", "agent_call"}

\* the word exit or quit in the cases typed
ExitWords ==
    { <<"e", "x", "i", "t">>, <<"q", "u", "i", "t">>, <<"Q", "u", "i", "T">> }

\* C36: in client.py the agent is invoked for exactly the inputs that are
\* neither exit/quit nor blank, the loop is left only on exit/quit, an
\* exception of the agent is reported and the loop goes on, and the agent
\* exists only when at least one client context was entered.
C36_CliLoopEndsOnlyOnExit ==
    /\ [][(cliPc = "input" /\ cliPc' = "agent_call") =>
            /\ Len(asked') = Len(asked) + 1
            /\ Last(asked') \in CliMessages \ (ExitWords \cup {<<>>, <<" ", " ">>})
         ]_vars
    /\ [][(cliPc = "input" /\ cliPc' # "agent_call") => asked' = asked]_vars
    /\ [][(InCliLoop /\ ~InCliLoop') => (cliPc' = "ended" /\ cliOut' = "bye")]_vars
    /\ [][cliPc = "agent_call" => (cliPc' = "input" /\ asked' = asked)]_vars
    /\ [](agent = "created" => clients >= 1)
    /\ []((cliPc \in {"agent", "input", "agent_call", "ended"}) => clients >= 1)

\* how many calls of Minecraft.create() ended in the way `how`
Attempts(how) == Cardinality({ i \in 1..Len(connLog) : connLog[i] = how })

\* C37: connect_to_minecraft makes at most max_retries attempts. It returns
\* the connection at the first attempt that succeeds; it sleeps and tries
\* again only after a refused attempt that is not the last one; it raises
\* ConnectionError after the last refused attempt and at once after any
\* other failure; and with max_retries >= 1 it never ends without a
\* connection or an error.
C37_ConnectRetriesBounded ==
    /\ [](Len(connLog) <= max_retries /\ attempt < max_retries + 1)
    /\ [](Len(connLog) \in {attempt, attempt + 1})
    /\ [](\A i \in 1..Len(connLog) : i < Len(connLog) => connLog[i] = "refused")
    /\ [](slept = retry_delay * attempt)
    /\ [](connPc = "returned" => (Last(connLog) = "ok" /\ Attempts("ok") = 1))
    /\ [](connPc = "sleep" => (Last(connLog) = "refused" /\ Len(connLog) < max_retries))
    /\ [](connPc = "raised" =>
            \/ Last(connLog) = "refused" /\ Len(connLog) = max_retries
                  /\ stderr = RefusedMsg
            \/ Last(connLog) = "failed" /\ stderr # RefusedMsg)
    /\ [][(connPc = "try" /\ connLog' # connLog) =>
            /\ Last(connLog') = "ok" => connPc' = "returned"
            /\ Last(connLog') = "failed" => connPc' = "raised"
            /\ Last(connLog') = "refused" =>
                  connPc' = (IF Len(connLog') < max_retries THEN "sleep" ELSE "raised")
         ]_vars
    /\ [](max_retries >= 1 => connPc # "returned_none")

\* the default number of attempts has been made, all refused, with a sleep
\* between them, and ConnectionError is raised
C37_Witness ==
    /\ max_retries = DefaultMaxRetries
    /\ connPc = "raised"
    /\ connLog = <<"refused", "refused", "refused">>
    /\ slept = 2 * DefaultRetryDelay

\* the arguments are ones validate_args is to reject: blockType outside
\* 0..255, a coordinate beyond the limit, or a y value outside 0..255
Rejected(a) ==
    \/ a.blockType.value \notin 0..255
    \/ \E k \in {"x0", "y0", "z0", "x1", "y1", "z1"} :
          a[k].value > coord_limit \/ a[k].value < 0 - coord_limit
    \/ a.y0.value \notin 0..255
    \/ a.y1.value \notin 0..255

\* every argument on the command line is an int
AllInts(a) == \A k \in DOMAIN a : a[k].type = "int"

\* C38: in tools/setBlocks.py validation precedes every effect. With
\* arguments that validate_args rejects no connection is attempted, setBlocks
\* is not called and the exit code is 1; when the connection fails setBlocks
\* is not called and the exit code is 2; and exit code 0 is returned only
\* after setBlocks has been called, on a connection, with valid arguments.
C38_ValidationPrecedesEffects ==
    /\ (scriptPc # "off" /\ AllInts(argv) /\ Rejected(argv)) =>
          /\ connLog = <<>> /\ connPc = "off"
          /\ setBlocksCalls = 0
          /\ scriptPc = "exit" => exit_code = "1"
    /\ connPc = "raised" =>
          /\ setBlocksCalls = 0
          /\ scriptPc = "exit" => exit_code = "2"
    /\ exit_code = "0" =>
          /\ setBlocksCalls = 1
          /\ connPc = "returned"
          /\ AllInts(argv) /\ ~Rejected(argv)
    /\ (connLog # <<>> \/ setBlocksCalls > 0) => (AllInts(argv) /\ ~Rejected(argv))
    /\ setBlocksCalls > 0 => connPc = "returned"
    /\ exit_code # "none" <=> scriptPc = "exit"

\* a y value of 256 has been rejected with exit code 1, nothing else done
C38_Witness ==
    /\ scriptPc = "exit"
    /\ exit_code = "1"
    /\ argv.blockType.value = 255
    /\ argv.y1.value = 256
    /\ argv.y0.value = 255
    /\ AllInts(argv)
    /\ connLog = <<>>

\* a parameter of the call is no integer
SomeNonInteger(p) == \E k \in DOMAIN p : p[k].type \notin {"int", "bool"}

\* the error texts of the tool that do not depend on the script
ToolErrorTexts ==
    { "Parameter " \o n \o " must be an integer, got str" :
          n \in {"x0", "y0", "z0", "x1", "y1", "z1", "blockType"} }
    \cup { "blockType must be between 0 and 255, got -1",
           "blockType must be between 0 and 255, got 256",
           "Script not found: tools/setBlocks.py",
           "Command execution timed out after 30 seconds",
           "Command not found: uv",
           "Permission denied when executing the command",
           "Exception occurred while executing command: [Errno 12] Cannot allocate memory" }

\* the returned string begins with 'Error:'
ReturnedError ==
    \/ \E m \in ToolErrorTexts : toolResult = "Error: " \o m
    \/ \E d \in {"Invalid value provided", "Connection error to Minecraft server",
                 "Invalid argument", "Unexpected error in script execution",
                 "Unknown error"} :
          toolResult = "Error: " \o d \o " - " \o stderr

\* C39: the setBlocks tool never starts the script when a parameter is no
\* integer or blockType is outside 0..255; it always returns, and what it
\* returns on any failure is a string beginning with 'Error:'; it returns
\* the standard output of the script only when the return code is 0.
C39_ToolReportsEveryFailure ==
    /\ (toolPc # "off" /\ (SomeNonInteger(params)
                            \/ params.blockType.value \notin 0..255)) =>
          /\ spawned = 0
          /\ scriptPc = "off"
          /\ toolPc = "returned" => ReturnedError
    /\ toolPc \in {"call", "run", "returned"}
    /\ spawned <= 1
    /\ toolPc = "returned" =>
          IF spawned = 1 /\ exit_code = "0"
          THEN toolResult = stdout /\ setBlocksCalls = 1
          ELSE ReturnedError
    /\ (toolPc = "returned" /\ ~ReturnedError) => (spawned = 1 /\ exit_code = "0")

\* the script was started, could not connect and ended with code 2, and the
\* tool has returned the error string for it
C39_Witness ==
    /\ toolPc = "returned"
    /\ spawned = 1
    /\ exit_code = "2"
    /\ connPc = "raised"
    /\ toolResult = "Error: Connection error to Minecraft server - " \o stderr

====
